---- MODULE Spec2Model ----
(***************************************************************************)
(* A model of cmake-package-rs: the Version value (src/src/version.rs),    *)
(* the build type selection and the target property resolution             *)
(* (src/src/cmake.rs).                                                     *)
(*                                                                         *)
(* Strings are sequences of one-character strings, so that splitting,      *)
(* substring search, integer parsing and the byte-wise order of Rust's     *)
(* String are computed and not assumed.  Option<T> is a sequence of        *)
(* length 0 (None) or 1 (Some).                                            *)
(***************************************************************************)
EXTENDS Integers, Sequences, FiniteSets, TLC

VARIABLES
    text,       \* Version::parse: the input string
    parsed,     \* Version::parse: its result
    shown,      \* the parsed version rendered by Display and by From<Version> for String
    reparsed,   \* Version::parse of the rendered text
    va, vb, vc, \* three versions handed to the comparison operators
    cmp,        \* the results of the comparison operators on va, vb, vc
    env,        \* the environment variables PROFILE, OPT_LEVEL and DEBUG
    selected,   \* the result of build_type()
    windows,    \* cfg!(target_os = "windows") of the build
    target,     \* the deserialized Target handed to into_cmake_target
    resolved,   \* the build type and the CMakeTarget of into_cmake_target
    calls,      \* the into_cmake_target calls made so far: input and result of each
    which,      \* the path which("cmake") finds on PATH, if any
    output,     \* what running cmake -P cmake_version.cmake gives: Err, or Ok(stderr)
    cmake,      \* the result of find_cmake()
    request,    \* the FindPackageBuilder on which find() is called
    sys,        \* what the steps of find_package meet: directory, script, run, package.json
    package,    \* the result of find()
    run,        \* find_target: whether the cmake command could be run
    target_file, \* find_target: the content of the output file, if it can be opened
    found_target, \* the result of CMakePackage::target()
    linked,     \* the CMakeTarget on which link() is called
    written,    \* the lines link() has written so far
    searched,   \* find_package: what the cmake run is asked to look for, if it is run
    workdir     \* the files cmake has written to the working directory of the package

vars == <<text, parsed, shown, reparsed, va, vb, vc, cmp, env, selected,
          windows, target, resolved, calls, which, output, cmake,
          request, sys, package, run, target_file, found_target, linked, written,
          searched, workdir>>

-----------------------------------------------------------------------------
(* Option and Result values *)

None == <<>>
Some(x) == <<x>>
IsSome(o) == Len(o) = 1
Unwrap(o) == o[1]

Pending == [tag |-> "Pending"]
Ok(v) == [tag |-> "Ok", value |-> v]
Err(e) == [tag |-> "Err", error |-> e]
IsOk(r) == r.tag = "Ok"
IsErr(r) == r.tag = "Err"

-----------------------------------------------------------------------------
(* Characters and strings *)

\* The characters of the model in the order of their UTF-8 bytes.
Alphabet ==
    << "\n", " ", "+", "-", ".", "/",
       "0", "1", "2", "3", "4", "5", "6", "7", "8", "9",
       "a", "b", "c", "d", "e", "f", "g", "h", "i", "j", "k", "l", "m",
       "n", "o", "p", "q", "r", "s", "t", "u", "v", "w", "x", "y", "z" >>

CharCode(ch) == CHOOSE i \in 1..Len(Alphabet) : Alphabet[i] = ch

Digits == {"0", "1", "2", "3", "4", "5", "6", "7", "8", "9"}

DigitValue(ch) == CharCode(ch) - CharCode("0")

DigitChar(d) == Alphabet[CharCode("0") + d]

\* str::split(sep): the pieces between the separators; always at least one piece.
RECURSIVE SplitFrom(_, _, _)
SplitFrom(s, sep, piece) ==
    IF s = <<>> THEN <<piece>>
    ELSE IF Head(s) = sep THEN <<piece>> \o SplitFrom(Tail(s), sep, <<>>)
    ELSE SplitFrom(Tail(s), sep, Append(piece, Head(s)))

Split(s, sep) == SplitFrom(s, sep, <<>>)

-----------------------------------------------------------------------------
(* Unsigned integers *)

\* The largest value of the unsigned integer type of the version components.
\* The source's type is u32; the model keeps the checked arithmetic of the
\* parser and scales the width down to what the inputs of the model reach.
UMax == 255

\* The accumulation loop of <u32 as FromStr>::from_str: for each character,
\* checked_mul(10) then checked_add(digit); an invalid digit or an overflow
\* is an error.
RECURSIVE ParseDigits(_, _)
ParseDigits(s, acc) ==
    IF s = <<>> THEN Ok(acc)
    ELSE IF Head(s) \notin Digits THEN Err("InvalidDigit")
    ELSE IF acc * 10 > UMax THEN Err("PosOverflow")
    ELSE IF acc * 10 + DigitValue(Head(s)) > UMax THEN Err("PosOverflow")
    ELSE ParseDigits(Tail(s), acc * 10 + DigitValue(Head(s)))

\* A parser that takes no sign at all.
ParseUnsigned_NoSign(s) ==
    IF s = <<>> THEN Err("Empty")
    ELSE IF Len(s) = 1 /\ Head(s) \in {"+", "-"} THEN Err("InvalidDigit")
    ELSE ParseDigits(s, 0)

\* str::parse::<u32>(): an optional '+' sign followed by decimal digits; a '-'
\* is never a sign of an unsigned type and is an invalid digit.
ParseUnsigned(s) ==
    IF s = <<>> THEN Err("Empty")
    ELSE IF Len(s) = 1 /\ Head(s) \in {"+", "-"} THEN Err("InvalidDigit")
    ELSE IF Head(s) = "+" THEN ParseDigits(Tail(s), 0)
    ELSE ParseDigits(s, 0)

\* The decimal rendering of an unsigned integer by format!("{}").
RECURSIVE FormatUnsigned(_)
FormatUnsigned(n) ==
    IF n < 10 THEN <<DigitChar(n)>>
    ELSE Append(FormatUnsigned(n \div 10), DigitChar(n % 10))

-----------------------------------------------------------------------------
(* Version (src/src/version.rs) *)

Version(major, minor, patch) == [major |-> major, minor |-> minor, patch |-> patch]

\* Version::parse
Version_parse(version) ==
    LET parts == Split(version, ".")
        major == ParseUnsigned(parts[1])
        minor == IF Len(parts) > 1 THEN ParseUnsigned(parts[2]) ELSE Ok(0)
        patch == IF Len(parts) > 2 THEN ParseUnsigned(parts[3]) ELSE Ok(0)
    IN  IF Len(parts) = 0 \/ Len(parts) > 3 THEN Err("InvalidVersion")
        ELSE IF IsErr(major) THEN Err("InvalidVersion")
        ELSE IF IsErr(minor) THEN Err("InvalidVersion")
        ELSE IF IsErr(patch) THEN Err("InvalidVersion")
        ELSE Ok(Version(major.value, minor.value, patch.value))

\* impl From<Version> for String
Version_into_string(value) ==
    FormatUnsigned(value.major) \o <<".">> \o FormatUnsigned(value.minor)
        \o <<".">> \o FormatUnsigned(value.patch)

\* A rendering that leaves out a patch number of zero.
Version_fmt_Short(self) ==
    IF self.patch = 0
    THEN FormatUnsigned(self.major) \o <<".">> \o FormatUnsigned(self.minor)
    ELSE FormatUnsigned(self.major) \o <<".">> \o FormatUnsigned(self.minor)
             \o <<".">> \o FormatUnsigned(self.patch)

\* impl Display for Version
Version_fmt(self) ==
    FormatUnsigned(self.major) \o <<".">> \o FormatUnsigned(self.minor)
        \o <<".">> \o FormatUnsigned(self.patch)

\* #[derive(PartialEq)]
Version_eq(self, other) ==
    self.major = other.major /\ self.minor = other.minor /\ self.patch = other.patch

\* PartialOrd::ge
Version_ge(self, other) ==
    self.major >= other.major /\ self.minor >= other.minor /\ self.patch >= other.patch

\* PartialOrd::gt
Version_gt(self, other) ==
    \/ self.major > other.major
    \/ self.major = other.major /\ self.minor > other.minor
    \/ self.major = other.major /\ self.minor = other.minor /\ self.patch > other.patch

\* PartialOrd::le
Version_le(self, other) ==
    self.major <= other.major /\ self.minor <= other.minor /\ self.patch <= other.patch

\* A "less than" that forgets to require equal major numbers before it
\* compares the minor numbers.
Version_lt_NoMajorGuard(self, other) ==
    \/ self.major < other.major
    \/ self.minor < other.minor
    \/ self.major = other.major /\ self.minor = other.minor /\ self.patch < other.patch

\* PartialOrd::lt
Version_lt(self, other) ==
    \/ self.major < other.major
    \/ self.major = other.major /\ self.minor < other.minor
    \/ self.major = other.major /\ self.minor = other.minor /\ self.patch < other.patch

\* PartialOrd::partial_cmp
Version_partial_cmp(self, other) ==
    IF Version_eq(self, other) THEN Some("Equal")
    ELSE IF Version_lt(self, other) THEN Some("Less")
    ELSE Some("Greater")

\* Every comparison operator applied to one ordered pair.
Comparisons(x, y) ==
    [ eq |-> Version_eq(x, y),
      ge |-> Version_ge(x, y),
      gt |-> Version_gt(x, y),
      le |-> Version_le(x, y),
      lt |-> Version_lt(x, y),
      partial_cmp |-> Version_partial_cmp(x, y) ]

-----------------------------------------------------------------------------
(* Parsing and rendering versions *)

\* The components the input strings are joined from.
Components ==
    { <<>>, <<"0">>, <<"7">>, <<"0", "1">>, <<"+", "1">>, <<"+">>, <<"-", "1">>,
      <<"a">>, <<"2", "5", "5">>, <<"2", "5", "6">> }

\* The largest number of components of an input string.
MaxParts == 4

RECURSIVE Join(_, _)
Join(pieces, sep) ==
    IF Len(pieces) = 0 THEN <<>>
    ELSE IF Len(pieces) = 1 THEN pieces[1]
    ELSE pieces[1] \o <<sep>> \o Join(Tail(pieces), sep)

\* The strings of at most max components.
TextInputs(max) ==
    UNION { { Join(pieces, ".") : pieces \in [1..n -> Components] } : n \in 1..max }

V0 == Version(0, 0, 0)

ParseIdle == text = <<>> /\ parsed = Pending /\ shown = Pending /\ reparsed = Pending
OrderIdle == va = V0 /\ vb = V0 /\ vc = V0 /\ cmp = Pending
BuildTypeIdle == env = <<>> /\ selected = Pending
ResolveIdle == windows = FALSE /\ target = <<>> /\ resolved = Pending

ParseVars == <<text, parsed, shown, reparsed>>
OrderVars == <<va, vb, vc, cmp>>
BuildTypeVars == <<env, selected>>
ResolveVars == <<windows, target, resolved>>

\* The operations modelled after the resolution of one target have not begun.
LaterIdle ==
    /\ calls = <<>>
    /\ which = <<>> /\ output = Pending /\ cmake = Pending
    /\ request = <<>> /\ sys = <<>> /\ package = Pending
    /\ run = FALSE /\ target_file = <<>> /\ found_target = Pending
    /\ linked = <<>> /\ written = <<>>
    /\ searched = <<>> /\ workdir = <<>>

LaterVars == <<calls, which, output, cmake, request, sys, package,
               run, target_file, found_target, linked, written, searched, workdir>>

InitParse ==
    /\ text \in TextInputs(MaxParts)
    /\ parsed = Pending /\ shown = Pending /\ reparsed = Pending
    /\ OrderIdle /\ BuildTypeIdle /\ ResolveIdle /\ LaterIdle

\* Version::parse(text)
Parse ==
    /\ parsed = Pending
    /\ parsed' = Version_parse(text)
    /\ UNCHANGED <<text, shown, reparsed, OrderVars, BuildTypeVars, ResolveVars, LaterVars>>

\* format!("{}", version) and String::from(version) on the parsed version
Render ==
    /\ IsOk(parsed)
    /\ shown = Pending
    /\ shown' = Ok([ display |-> Version_fmt(parsed.value),
                     string |-> Version_into_string(parsed.value) ])
    /\ UNCHANGED <<text, parsed, reparsed, OrderVars, BuildTypeVars, ResolveVars, LaterVars>>

\* Version::parse on the rendered text
Reparse ==
    /\ IsOk(shown)
    /\ reparsed = Pending
    /\ reparsed' = Version_parse(shown.value.display)
    /\ UNCHANGED <<text, parsed, shown, OrderVars, BuildTypeVars, ResolveVars, LaterVars>>

NextParse == Parse \/ Render \/ Reparse

SpecParse == InitParse /\ [][NextParse]_vars

-----------------------------------------------------------------------------
(* What the claims about parsing and rendering speak of, stated on the text
   itself: the positions of the dots, the runs between them, their values. *)

DotPositions(s) == { i \in 1..Len(s) : s[i] = "." }

NthDot(s, k) ==
    CHOOSE i \in DotPositions(s) : Cardinality({ j \in DotPositions(s) : j < i }) = k - 1

ComponentCount(s) == Cardinality(DotPositions(s)) + 1

Component(s, k) ==
    LET lo == IF k = 1 THEN 0 ELSE NthDot(s, k - 1)
        hi == IF k = ComponentCount(s) THEN Len(s) + 1 ELSE NthDot(s, k)
    IN  SubSeq(s, lo + 1, hi - 1)

IsDecimalNumber(s) == Len(s) > 0 /\ \A i \in 1..Len(s) : s[i] \in Digits

RECURSIVE DecimalValueOfFirst(_, _)
DecimalValueOfFirst(s, n) ==
    IF n = 0 THEN 0 ELSE 10 * DecimalValueOfFirst(s, n - 1) + DigitValue(s[n])

DecimalValue(s) == DecimalValueOfFirst(s, Len(s))

WithoutPlus(s) == IF Len(s) > 0 /\ Head(s) = "+" THEN Tail(s) ELSE s

\* Every component is a decimal number that fits the unsigned type.
AllDecimal(s) ==
    /\ ComponentCount(s) \in 1..3
    /\ \A k \in 1..ComponentCount(s) :
           IsDecimalNumber(Component(s, k)) /\ DecimalValue(Component(s, k)) <= UMax

\* The same, a component being allowed one leading '+'.
AllDecimalOrPlus(s) ==
    /\ ComponentCount(s) \in 1..3
    /\ \A k \in 1..ComponentCount(s) :
           /\ IsDecimalNumber(WithoutPlus(Component(s, k)))
           /\ DecimalValue(WithoutPlus(Component(s, k))) <= UMax

ComponentValue(s, k) ==
    IF k <= ComponentCount(s) THEN DecimalValue(WithoutPlus(Component(s, k))) ELSE 0

ExpectedVersion(s) ==
    Version(ComponentValue(s, 1), ComponentValue(s, 2), ComponentValue(s, 3))

\* C3 as stated: Version::parse succeeds exactly when the text has 1, 2 or 3
\* dot-separated components, each a non-empty decimal number that fits the
\* unsigned type; the result holds the components in order, missing ones 0;
\* every other text gives InvalidVersion.
C3_ParseExactlyDecimalComponents ==
    parsed # Pending =>
        /\ IsOk(parsed) <=> AllDecimal(text)
        /\ IsOk(parsed) => parsed.value = ExpectedVersion(text)
        /\ ~AllDecimal(text) => parsed = Err("InvalidVersion")

\* C3 amended: Version::parse succeeds exactly when the text has 1, 2 or 3
\* dot-separated components, each a non-empty run of decimal digits, optionally
\* preceded by one '+', whose value fits the unsigned type; the result holds the
\* components' values in order, missing ones 0; every other text gives
\* InvalidVersion.
C3_ParseExactlySignedDecimalComponents ==
    parsed # Pending =>
        /\ IsOk(parsed) <=> AllDecimalOrPlus(text)
        /\ IsOk(parsed) => parsed.value = ExpectedVersion(text)
        /\ ~AllDecimalOrPlus(text) => parsed = Err("InvalidVersion")

\* "+1.7" has been parsed, to 1.7.0.
C3_Witness ==
    /\ text = <<"+", "1", ".", "7">>
    /\ parsed = Ok(Version(1, 7, 0))

\* C4: Display and From<Version> for String give the same text, which is
\* exactly three dot-separated decimal numbers, the major, minor and patch
\* number in this order, whatever the number of components that was parsed;
\* parsing the rendered text gives the version back.
C4_RenderThreeComponentsAndRoundTrip ==
    /\ IsOk(shown) =>
         LET t == shown.value.display
             v == parsed.value
         IN  /\ shown.value.string = t
             /\ ComponentCount(t) = 3
             /\ \A k \in 1..3 : IsDecimalNumber(Component(t, k))
             /\ DecimalValue(Component(t, 1)) = v.major
             /\ DecimalValue(Component(t, 2)) = v.minor
             /\ DecimalValue(Component(t, 3)) = v.patch
    /\ reparsed # Pending => reparsed = Ok(parsed.value)

\* "7.255" was parsed, rendered as "7.255.0" and parsed back to 7.255.0.
C4_Witness ==
    /\ text = <<"7", ".", "2", "5", "5">>
    /\ IsOk(shown)
    /\ shown.value.display = <<"7", ".", "2", "5", "5", ".", "0">>
    /\ reparsed = Ok(Version(7, 255, 0))

-----------------------------------------------------------------------------
(* Comparing versions *)

\* The largest major, minor or patch number of the compared versions.
MaxComponent == 2

\* The versions with no component above max.
Versions(max) ==
    { Version(x, y, z) : x \in 0..max, y \in 0..max, z \in 0..max }

InitOrder ==
    /\ va \in Versions(MaxComponent)
    /\ vb \in Versions(MaxComponent)
    /\ vc \in Versions(MaxComponent)
    /\ cmp = Pending
    /\ ParseIdle /\ BuildTypeIdle /\ ResolveIdle /\ LaterIdle

\* ==, >=, >, <=, < and partial_cmp on the pairs of va, vb, vc
Compare ==
    /\ cmp = Pending
    /\ cmp' = Ok([ ab |-> Comparisons(va, vb),
                   ba |-> Comparisons(vb, va),
                   bc |-> Comparisons(vb, vc),
                   ac |-> Comparisons(va, vc) ])
    /\ UNCHANGED <<va, vb, vc, ParseVars, BuildTypeVars, ResolveVars, LaterVars>>

NextOrder == Compare

SpecOrder == InitOrder /\ [][NextOrder]_vars

\* The lexicographic order on (major, minor, patch), stated on the triples.
Key(v) == <<v.major, v.minor, v.patch>>

LexLess(x, y) ==
    \E i \in 1..3 :
        /\ \A j \in 1..(i - 1) : Key(x)[j] = Key(y)[j]
        /\ Key(x)[i] < Key(y)[i]

LexCompare(x, y) ==
    IF Key(x) = Key(y) THEN "Equal" ELSE IF LexLess(x, y) THEN "Less" ELSE "Greater"

\* C1: >= and <= agree with the lexicographic order on (major, minor, patch):
\* a >= b exactly when a > b or a == b, a <= b exactly when a < b or a == b,
\* and for every pair at least one of a <= b, a >= b holds.
C1_GeLeAgreeWithLexicographicOrder ==
    IsOk(cmp) =>
        LET r == cmp.value.ab
        IN  /\ r.ge <=> (LexLess(vb, va) \/ Key(va) = Key(vb))
            /\ r.le <=> (LexLess(va, vb) \/ Key(va) = Key(vb))
            /\ r.ge <=> (r.gt \/ r.eq)
            /\ r.le <=> (r.lt \/ r.eq)
            /\ r.ge \/ r.le

\* C2: partial_cmp is never None and is the lexicographic comparison of
\* (major, minor, patch); < and > agree with it; exactly one of a < b, a == b,
\* a > b holds; a < b iff b > a; < is transitive.
C2_PartialCmpIsLexicographic ==
    IsOk(cmp) =>
        LET r == cmp.value
        IN  /\ IsSome(r.ab.partial_cmp)
            /\ r.ab.partial_cmp = Some(LexCompare(va, vb))
            /\ r.ab.lt <=> r.ab.partial_cmp = Some("Less")
            /\ r.ab.gt <=> r.ab.partial_cmp = Some("Greater")
            /\ r.ab.eq <=> r.ab.partial_cmp = Some("Equal")
            /\ Cardinality({ op \in {"lt", "eq", "gt"} : r.ab[op] }) = 1
            /\ r.ab.lt <=> r.ba.gt
            /\ (r.ab.lt /\ r.bc.lt) => r.ac.lt

\* 0.2.1 < 1.0.0 < 1.0.2 have been compared: each pair is ordered by the major
\* number although a later component of the smaller version is the larger one.
C2_Witness ==
    /\ va = Version(0, 2, 1) /\ vb = Version(1, 0, 0) /\ vc = Version(1, 0, 2)
    /\ IsOk(cmp)
    /\ cmp.value.ab.lt /\ cmp.value.bc.lt /\ cmp.value.ac.lt /\ cmp.value.ba.gt

-----------------------------------------------------------------------------
(* build_type (src/src/cmake.rs) *)

\* enum CMakeBuildType
CMakeBuildType == {"Debug", "Release", "RelWithDebInfo", "MinSizeRel"}

\* str::contains(&String): the pattern occurs as a substring.
Contains(haystack, needle) ==
    \E i \in 0..(Len(haystack) - Len(needle)) :
        SubSeq(haystack, i + 1, i + Len(needle)) = needle

\* std::env::var(name).unwrap_or(default): the value of a variable that is set
\* (to valid Unicode), the default otherwise.  e[name] is None for a variable
\* std::env::var gives an Err for.
EnvVarOr(e, name, default) == IF IsSome(e[name]) THEN Unwrap(e[name]) ELSE default

\* A release arm that looks at DEBUG before it looks at OPT_LEVEL.
build_type_release_DebugFirst(e) ==
    LET opt_level == EnvVarOr(e, "OPT_LEVEL", <<"0">>)
        debug == EnvVarOr(e, "DEBUG", <<"0">>)
    IN  IF debug \notin { <<"0">>, <<"f", "a", "l", "s", "e">>, <<"n", "o", "n", "e">> }
        THEN "RelWithDebInfo"
        ELSE IF Contains(<<"s", "z">>, opt_level) THEN "MinSizeRel"
        ELSE "Release"

\* A release arm that takes an unset DEBUG for "1".
build_type_release_DebugDefaultsOn(e) ==
    LET opt_level == EnvVarOr(e, "OPT_LEVEL", <<"0">>)
        debug == EnvVarOr(e, "DEBUG", <<"1">>)
    IN  IF Contains(<<"s", "z">>, opt_level) THEN "MinSizeRel"
        ELSE IF debug \notin { <<"0">>, <<"f", "a", "l", "s", "e">>, <<"n", "o", "n", "e">> }
        THEN "RelWithDebInfo"
        ELSE "Release"

\* The "release" arm of build_type().
build_type_release(e) ==
    LET opt_level == EnvVarOr(e, "OPT_LEVEL", <<"0">>)
        debug == EnvVarOr(e, "DEBUG", <<"0">>)
    IN  IF Contains(<<"s", "z">>, opt_level) THEN "MinSizeRel"
        ELSE IF debug \notin { <<"0">>, <<"f", "a", "l", "s", "e">>, <<"n", "o", "n", "e">> }
        THEN "RelWithDebInfo"
        ELSE "Release"

\* A build_type() that takes the release arm for every profile but "debug".
build_type_ReleaseUnlessDebug(e) ==
    IF EnvVarOr(e, "PROFILE", <<"d", "e", "b", "u", "g">>) # <<"d", "e", "b", "u", "g">>
    THEN build_type_release(e)
    ELSE "Debug"

\* build_type()
build_type(e) ==
    IF EnvVarOr(e, "PROFILE", <<"d", "e", "b", "u", "g">>) = <<"r", "e", "l", "e", "a", "s", "e">>
    THEN build_type_release(e)
    ELSE "Debug"

\* The values of the three variables: unset, what cargo sets, and others.
ProfileValues ==
    { None, Some(<<"r", "e", "l", "e", "a", "s", "e">>), Some(<<"d", "e", "b", "u", "g">>),
      Some(<<>>), Some(<<"b", "e", "n", "c", "h">>), Some(<<"r", "e", "l">>) }

OptLevelValues ==
    { None, Some(<<"0">>), Some(<<"1">>), Some(<<"2">>), Some(<<"3">>), Some(<<"s">>),
      Some(<<"z">>), Some(<<>>), Some(<<"s", "z">>), Some(<<"z", "s">>) }

DebugValues ==
    { None, Some(<<"0">>), Some(<<"1">>), Some(<<"2">>), Some(<<"t", "r", "u", "e">>),
      Some(<<"f", "a", "l", "s", "e">>), Some(<<"n", "o", "n", "e">>), Some(<<>>),
      Some(<<"f", "u", "l", "l">>) }

InitBuildType ==
    /\ env \in [ PROFILE : ProfileValues, OPT_LEVEL : OptLevelValues, DEBUG : DebugValues ]
    /\ selected = Pending
    /\ ParseIdle /\ OrderIdle /\ ResolveIdle /\ LaterIdle

\* build_type() in the environment env
SelectBuildType ==
    /\ selected = Pending
    /\ selected' = Ok(build_type(env))
    /\ UNCHANGED <<env, ParseVars, OrderVars, ResolveVars, LaterVars>>

NextBuildType == SelectBuildType

SpecBuildType == InitBuildType /\ [][NextBuildType]_vars

ProfileRelease == Some(<<"r", "e", "l", "e", "a", "s", "e">>)

DebugDisabled == { None, Some(<<"0">>), Some(<<"f", "a", "l", "s", "e">>), Some(<<"n", "o", "n", "e">>) }

\* C5: build_type() is Debug whenever PROFILE is unset or is not "release",
\* whatever OPT_LEVEL and DEBUG are.
C5_NonReleaseIsDebug ==
    (IsOk(selected) /\ env.PROFILE # ProfileRelease) => selected.value = "Debug"

\* PROFILE is unset, OPT_LEVEL is "s" and DEBUG is "1": Debug was selected.
C5_Witness ==
    /\ env = [ PROFILE |-> None, OPT_LEVEL |-> Some(<<"s">>), DEBUG |-> Some(<<"1">>) ]
    /\ selected = Ok("Debug")

\* C6: with PROFILE "release" and OPT_LEVEL "s" or "z", build_type() is
\* MinSizeRel whatever DEBUG is.
C6_SizeLevelIsMinSizeRel ==
    (IsOk(selected) /\ env.PROFILE = ProfileRelease /\ env.OPT_LEVEL \in { Some(<<"s">>), Some(<<"z">>) })
        => selected.value = "MinSizeRel"

\* A release build with OPT_LEVEL "z" and DEBUG "true": MinSizeRel was selected.
C6_Witness ==
    /\ env = [ PROFILE |-> ProfileRelease, OPT_LEVEL |-> Some(<<"z">>), DEBUG |-> Some(<<"t", "r", "u", "e">>) ]
    /\ selected = Ok("MinSizeRel")

\* C7: with PROFILE "release" and OPT_LEVEL anything but "s" and "z",
\* build_type() is RelWithDebInfo when DEBUG is "1" or "true", Release when
\* DEBUG is "0", "false", "none" or unset, and never MinSizeRel.
C7_OtherLevelsFollowDebug ==
    (IsOk(selected) /\ env.PROFILE = ProfileRelease /\ env.OPT_LEVEL \notin { Some(<<"s">>), Some(<<"z">>) })
        => /\ env.DEBUG \in { Some(<<"1">>), Some(<<"t", "r", "u", "e">>) }
                => selected.value = "RelWithDebInfo"
           /\ env.DEBUG \in DebugDisabled => selected.value = "Release"
           /\ selected.value # "MinSizeRel"

\* C8: build_type() always gives one of the four build types; an unset PROFILE
\* gives Debug; with PROFILE "release" and OPT_LEVEL unset the result is
\* RelWithDebInfo exactly when DEBUG is set to something other than "0",
\* "false", "none", and Release otherwise.
C8_TotalWithDefaults ==
    IsOk(selected) =>
        /\ selected.value \in CMakeBuildType
        /\ env.PROFILE = None => selected.value = "Debug"
        /\ (env.PROFILE = ProfileRelease /\ env.OPT_LEVEL = None) =>
              /\ selected.value = "RelWithDebInfo" <=> env.DEBUG \notin DebugDisabled
              /\ selected.value = "Release" <=> env.DEBUG \in DebugDisabled

\* A release build with OPT_LEVEL and DEBUG both unset: Release was selected.
C8_Witness ==
    /\ env = [ PROFILE |-> ProfileRelease, OPT_LEVEL |-> None, DEBUG |-> None ]
    /\ selected = Ok("Release")

-----------------------------------------------------------------------------
(* Targets and their resolution (src/src/cmake.rs) *)

\* <String as Ord>: the lexicographic order of the bytes; a proper prefix is
\* the smaller string.
RECURSIVE StrLess(_, _)
StrLess(x, y) ==
    IF y = <<>> THEN FALSE
    ELSE IF x = <<>> THEN TRUE
    ELSE IF Head(x) # Head(y) THEN CharCode(Head(x)) < CharCode(Head(y))
    ELSE StrLess(Tail(x), Tail(y))

\* Inserts a string behind the last element that is not greater.
RECURSIVE InsertSorted(_, _)
InsertSorted(x, list) ==
    IF list = <<>> THEN <<x>>
    ELSE IF StrLess(x, Head(list)) THEN <<x>> \o list
    ELSE <<Head(list)>> \o InsertSorted(x, Tail(list))

\* Itertools::sorted(): the strings in ascending order (a stable sort).
RECURSIVE Sorted(_)
Sorted(list) ==
    IF list = <<>> THEN <<>>
    ELSE InsertSorted(list[Len(list)], Sorted(SubSeq(list, 1, Len(list) - 1)))

\* Itertools::dedup(): of every run of equal consecutive elements the first.
RECURSIVE Dedup(_)
Dedup(list) ==
    IF Len(list) < 2 THEN list
    ELSE IF list[1] = list[2] THEN Dedup(Tail(list))
    ELSE <<list[1]>> \o Dedup(Tail(list))

\* enum PropertyValue
PropertyValue_String(value) == [kind |-> "String", string |-> value]
PropertyValue_Target(t) == [kind |-> "Target", target |-> t]

\* Option<Vec<_>>: the vector, or an empty one (map_or(Vec::new(), Clone::clone),
\* unwrap_or_default()).
OrEmpty(o) == IF IsSome(o) THEN Unwrap(o) ELSE <<>>

\* A walk that takes the nested targets' values before the target's own.
RECURSIVE collect_from_targets_DepsFirst(_, _)
collect_from_targets_DepsFirst(t, property) ==
    LET entries == OrEmpty(t.interface_link_libraries)
        F[i \in 0..Len(entries)] ==
            IF i = 0 THEN <<>>
            ELSE IF entries[i].kind = "Target"
                 THEN F[i - 1] \o collect_from_targets_DepsFirst(entries[i].target, property)
                 ELSE F[i - 1]
    IN  F[Len(entries)] \o OrEmpty(t[property])

\* A walk that goes level by level: the values of the root, then those of
\* all its nested Targets, then those of all their nested Targets.
collect_from_targets_BreadthFirst(t, property) ==
    LET RECURSIVE Level(_)
        Level(nodes) ==
            IF nodes = <<>> THEN <<>>
            ELSE LET Children(n) ==
                         LET entries == OrEmpty(n.interface_link_libraries)
                             F[i \in 0..Len(entries)] ==
                                 IF i = 0 THEN <<>>
                                 ELSE IF entries[i].kind = "Target"
                                      THEN F[i - 1] \o <<entries[i].target>>
                                      ELSE F[i - 1]
                         IN  F[Len(entries)]
                     Own[i \in 0..Len(nodes)] ==
                         IF i = 0 THEN <<>> ELSE Own[i - 1] \o OrEmpty(nodes[i][property])
                     Below[i \in 0..Len(nodes)] ==
                         IF i = 0 THEN <<>> ELSE Below[i - 1] \o Children(nodes[i])
                 IN  Own[Len(nodes)] \o Level(Below[Len(nodes)])
    IN  Level(<<t>>)

\* collect_from_targets: the target's own values of the property, then the
\* values collected from every Target entry of interface_link_libraries.
RECURSIVE collect_from_targets(_, _)
collect_from_targets(t, property) ==
    LET entries == OrEmpty(t.interface_link_libraries)
        F[i \in 0..Len(entries)] ==
            IF i = 0 THEN <<>>
            ELSE IF entries[i].kind = "Target"
                 THEN F[i - 1] \o collect_from_targets(entries[i].target, property)
                 ELSE F[i - 1]
    IN  OrEmpty(t[property]) \o F[Len(entries)]

\* A collection that is sorted and keeps its duplicates.
collect_from_targets_unique_NoDedup(t, property) ==
    Sorted(collect_from_targets(t, property))

\* collect_from_targets_unique
collect_from_targets_unique(t, property) ==
    Dedup(Sorted(collect_from_targets(t, property)))

\* A location_for_build_type whose Release arm reads the Debug override.
location_for_build_type_ReleaseReadsDebug(is_windows, bt, t) ==
    LET or(a, b) == IF IsSome(a) THEN a ELSE b
    IN  IF is_windows
        THEN CASE bt = "Debug" -> or(t.imported_implib_debug, t.imported_implib)
               [] bt = "Release" -> or(t.imported_implib_debug, t.imported_implib)
               [] bt = "RelWithDebInfo" -> or(t.imported_implib_relwithdebinfo, t.imported_implib)
               [] bt = "MinSizeRel" -> or(t.imported_implib_minsizerel, t.imported_implib)
        ELSE CASE bt = "Debug" -> or(t.location_debug, t.location)
               [] bt = "Release" -> or(t.location_debug, t.location)
               [] bt = "RelWithDebInfo" -> or(t.location_relwithdebinfo, t.location)
               [] bt = "MinSizeRel" -> or(t.location_minsizerel, t.location)

\* location_for_build_type
location_for_build_type(is_windows, bt, t) ==
    LET or(a, b) == IF IsSome(a) THEN a ELSE b
    IN  IF is_windows
        THEN CASE bt = "Debug" -> or(t.imported_implib_debug, t.imported_implib)
               [] bt = "Release" -> or(t.imported_implib_release, t.imported_implib)
               [] bt = "RelWithDebInfo" -> or(t.imported_implib_relwithdebinfo, t.imported_implib)
               [] bt = "MinSizeRel" -> or(t.imported_implib_minsizerel, t.imported_implib)
        ELSE CASE bt = "Debug" -> or(t.location_debug, t.location)
               [] bt = "Release" -> or(t.location_release, t.location)
               [] bt = "RelWithDebInfo" -> or(t.location_relwithdebinfo, t.location)
               [] bt = "MinSizeRel" -> or(t.location_minsizerel, t.location)

\* impl From<PropertyValue> for Vec<String>
RECURSIVE PropertyValue_into_vec(_)
PropertyValue_into_vec(value) ==
    IF value.kind = "String" THEN <<value.string>>
    ELSE LET t == value.target
             entries == OrEmpty(t.interface_link_libraries)
             F[i \in 0..Len(entries)] ==
                 IF i = 0 THEN <<>> ELSE F[i - 1] \o PropertyValue_into_vec(entries[i])
         IN  (IF IsSome(t.location) THEN <<Unwrap(t.location)>> ELSE <<>>) \o F[Len(entries)]

\* The link_libraries without the sort: root, then entries in declared order.
link_libraries_of_Unsorted(is_windows, bt, t) ==
    LET location == location_for_build_type(is_windows, bt, t)
        entries == OrEmpty(t.interface_link_libraries)
        F[i \in 0..Len(entries)] ==
            IF i = 0 THEN <<>> ELSE F[i - 1] \o PropertyValue_into_vec(entries[i])
    IN  Dedup((IF IsSome(location) THEN <<Unwrap(location)>> ELSE <<>>) \o F[Len(entries)])

\* The link_libraries of Target::into_cmake_target
link_libraries_of(is_windows, bt, t) ==
    LET location == location_for_build_type(is_windows, bt, t)
        entries == OrEmpty(t.interface_link_libraries)
        F[i \in 0..Len(entries)] ==
            IF i = 0 THEN <<>> ELSE F[i - 1] \o PropertyValue_into_vec(entries[i])
    IN  Dedup(Sorted((IF IsSome(location) THEN <<Unwrap(location)>> ELSE <<>>)
                         \o F[Len(entries)]))

\* A resolution that sorts and deduplicates the compile and link options too.
into_cmake_target_AllUnique(is_windows, t, bt) ==
    [ compile_definitions |-> collect_from_targets_unique(t, "interface_compile_definitions"),
      compile_options |-> collect_from_targets_unique(t, "interface_compile_options"),
      include_directories |-> collect_from_targets_unique(t, "interface_include_directories"),
      link_directories |-> collect_from_targets_unique(t, "interface_link_directories"),
      link_options |-> collect_from_targets_unique(t, "interface_link_options"),
      link_libraries |-> link_libraries_of(is_windows, bt, t),
      location |-> location_for_build_type(is_windows, bt, t),
      name |-> t.name ]

\* A resolution that keeps a buffer between calls: from the second call on the
\* link libraries are those of the tree of the call before.
into_cmake_target_StaleLibraries(is_windows, t, bt) ==
    [ compile_definitions |-> collect_from_targets_unique(t, "interface_compile_definitions"),
      compile_options |-> collect_from_targets(t, "interface_compile_options"),
      include_directories |-> collect_from_targets_unique(t, "interface_include_directories"),
      link_directories |-> collect_from_targets_unique(t, "interface_link_directories"),
      link_options |-> collect_from_targets(t, "interface_link_options"),
      link_libraries |-> IF calls = <<>> THEN link_libraries_of(is_windows, bt, t)
                         ELSE link_libraries_of(is_windows, bt, calls[Len(calls)].target),
      location |-> location_for_build_type(is_windows, bt, t),
      name |-> t.name ]

\* A resolution that gives up on a target without a resolved location.
into_cmake_target_NeedsLocation(is_windows, t, bt) ==
    IF IsSome(location_for_build_type(is_windows, bt, t))
    THEN into_cmake_target_AllUnique(is_windows, t, bt)
    ELSE [ kind |-> "Internal" ]

\* A resolution that is named after the last Target it has visited.
into_cmake_target_NestedName(is_windows, t, bt) ==
    [ into_cmake_target_AllUnique(is_windows, t, bt) EXCEPT
        !.compile_options = collect_from_targets(t, "interface_compile_options"),
        !.link_options = collect_from_targets(t, "interface_link_options"),
        !.name = LET entries == OrEmpty(t.interface_link_libraries)
                     nested == { i \in 1..Len(entries) : entries[i].kind = "Target" }
                 IN  IF nested = {} THEN t.name
                     ELSE entries[CHOOSE i \in nested : \A j \in nested : j <= i].target.name ]

\* Target::into_cmake_target
into_cmake_target(is_windows, t, bt) ==
    [ compile_definitions |-> collect_from_targets_unique(t, "interface_compile_definitions"),
      compile_options |-> collect_from_targets(t, "interface_compile_options"),
      include_directories |-> collect_from_targets_unique(t, "interface_include_directories"),
      link_directories |-> collect_from_targets_unique(t, "interface_link_directories"),
      link_options |-> collect_from_targets(t, "interface_link_options"),
      link_libraries |-> link_libraries_of(is_windows, bt, t),
      location |-> location_for_build_type(is_windows, bt, t),
      name |-> t.name ]

-----------------------------------------------------------------------------
(* The target trees that are resolved *)

\* The largest number of interface_link_libraries entries of a tree, the
\* lists of the root and of the nested Targets taken together.
MaxEntries == 2

\* The values of one string-list property of one target: absent, empty, out of
\* order, with a value twice, with a value that is a prefix of another.
BaseLists ==
    { None, Some(<<>>), Some(<< <<"b">>, <<"a">> >>), Some(<< <<"a">>, <<"a">> >>),
      Some(<< <<"a", "b">>, <<"b">> >>) }

\* The list with a letter put before every value: the five properties of a
\* target hold the same list, each marked with the letter of its property.
Marked(letter, list) ==
    IF IsSome(list)
    THEN Some([ i \in 1..Len(Unwrap(list)) |-> <<letter>> \o Unwrap(list)[i] ])
    ELSE None

\* struct Target, deserialized: a name, no locations, the five string lists
\* and the link libraries.
MakeTarget(name, list, link_libraries) ==
    [ name |-> name,
      location |-> None,
      location_release |-> None,
      location_debug |-> None,
      location_relwithdebinfo |-> None,
      location_minsizerel |-> None,
      imported_implib |-> None,
      imported_implib_release |-> None,
      imported_implib_debug |-> None,
      imported_implib_relwithdebinfo |-> None,
      imported_implib_minsizerel |-> None,
      interface_compile_definitions |-> Marked("d", list),
      interface_compile_options |-> Marked("o", list),
      interface_include_directories |-> Marked("i", list),
      interface_link_directories |-> Marked("l", list),
      interface_link_libraries |-> link_libraries,
      interface_link_options |-> Marked("k", list) ]

StringEntries == { PropertyValue_String(<<"x">>) }

\* The number of interface_link_libraries entries of a tree.
RECURSIVE EntryCount(_)
EntryCount(t) ==
    LET entries == OrEmpty(t.interface_link_libraries)
        F[i \in 0..Len(entries)] ==
            IF i = 0 THEN 0
            ELSE IF entries[i].kind = "Target"
                 THEN F[i - 1] + 1 + EntryCount(entries[i].target)
                 ELSE F[i - 1] + 1
    IN  F[Len(entries)]

\* TargetTrees(n): the trees of at most n entries; EntryLists(n): the lists
\* that hold, with the trees of their Target entries, at most n entries.
RECURSIVE TargetTrees(_), EntryLists(_)
TargetTrees(n) ==
    { MakeTarget(<<"d", "e", "p">>, list, link_libraries) :
          list \in BaseLists,
          link_libraries \in {None} \cup { Some(es) : es \in EntryLists(n) } }

EntryLists(n) ==
    IF n = 0 THEN { <<>> }
    ELSE { <<>> }
         \cup { <<e>> \o rest : e \in StringEntries, rest \in EntryLists(n - 1) }
         \cup UNION { { <<PropertyValue_Target(t)>> \o rest :
                           rest \in EntryLists(n - 1 - EntryCount(t)) } :
                       t \in TargetTrees(n - 1) }

\* The trees of at most n entries, the root named "root".
RootTargets(n) == { [ t EXCEPT !.name = <<"r", "o", "o", "t">> ] : t \in TargetTrees(n) }

InitResolve ==
    /\ windows \in BOOLEAN
    /\ target \in RootTargets(MaxEntries)
    /\ resolved = Pending
    /\ ParseIdle /\ OrderIdle /\ BuildTypeIdle /\ LaterIdle

\* target.into_cmake_target(build_type)
Resolve ==
    /\ resolved = Pending
    /\ \E bt \in CMakeBuildType :
           resolved' = Ok([ build_type |-> bt,
                            cmake_target |-> into_cmake_target(windows, target, bt) ])
    /\ UNCHANGED <<windows, target, ParseVars, OrderVars, BuildTypeVars, LaterVars>>

NextResolve == Resolve

SpecResolve == InitResolve /\ [][NextResolve]_vars

-----------------------------------------------------------------------------
(* What the claims about resolution speak of, stated on the tree: its Targets
   in declared order, and the values they hold themselves. *)

\* The root, then for each Target entry in declared order its Targets.
RECURSIVE TargetsInOrder(_)
TargetsInOrder(t) ==
    LET entries == OrEmpty(t.interface_link_libraries)
        F[i \in 0..Len(entries)] ==
            IF i = 0 THEN <<t>>
            ELSE IF entries[i].kind = "Target"
                 THEN F[i - 1] \o TargetsInOrder(entries[i].target)
                 ELSE F[i - 1]
    IN  F[Len(entries)]

\* The own values of the property of each Target of the tree, one Target after
\* the other.
RawCollection(t, property) ==
    LET nodes == TargetsInOrder(t)
        F[i \in 0..Len(nodes)] ==
            IF i = 0 THEN <<>> ELSE F[i - 1] \o OrEmpty(nodes[i][property])
    IN  F[Len(nodes)]

Range(list) == { list[i] : i \in 1..Len(list) }

\* The values some Target of the tree holds for the property.
RawValues(t, property) ==
    UNION { Range(OrEmpty(n[property])) : n \in Range(TargetsInOrder(t)) }

StrictlyIncreasing(list) == \A i \in 1..(Len(list) - 1) : StrLess(list[i], list[i + 1])

\* C9: the resolved compile_options and link_options are the raw collection
\* sequence: the root's values, then each nested Target's collected values in
\* declared order, nothing sorted and nothing dropped.
C9_OptionsAreRawCollection ==
    IsOk(resolved) =>
        LET r == resolved.value.cmake_target
        IN  /\ r.compile_options = RawCollection(target, "interface_compile_options")
            /\ r.link_options = RawCollection(target, "interface_link_options")

\* A root with the options b, a and a nested Target with a, a under it was
\* resolved: the options are b, a, a, a.
C9_Witness ==
    /\ IsOk(resolved)
    /\ resolved.value.cmake_target.compile_options
         = << <<"o", "b">>, <<"o", "a">>, <<"o", "a">>, <<"o", "a">> >>
    /\ resolved.value.cmake_target.link_options
         = << <<"k", "b">>, <<"k", "a">>, <<"k", "a">>, <<"k", "a">> >>

\* C10: each of the resolved compile_definitions, include_directories and
\* link_directories is strictly increasing in the order of the strings and has
\* exactly the values that the root and the nested Targets hold for it.
C10_UniqueListsAreSortedSets ==
    IsOk(resolved) =>
        LET r == resolved.value.cmake_target
        IN  /\ StrictlyIncreasing(r.compile_definitions)
            /\ Range(r.compile_definitions) = RawValues(target, "interface_compile_definitions")
            /\ StrictlyIncreasing(r.include_directories)
            /\ Range(r.include_directories) = RawValues(target, "interface_include_directories")
            /\ StrictlyIncreasing(r.link_directories)
            /\ Range(r.link_directories) = RawValues(target, "interface_link_directories")

\* A tree of three Targets that hold b, a and a, a and ab, b was resolved: each
\* of the three lists is a, ab, b.
C10_Witness ==
    /\ IsOk(resolved)
    /\ Len(TargetsInOrder(target)) = 3
    /\ Len(RawCollection(target, "interface_include_directories")) = 6
    /\ resolved.value.cmake_target.include_directories
         = << <<"i", "a">>, <<"i", "a", "b">>, <<"i", "b">> >>
    /\ resolved.value.cmake_target.compile_definitions
         = << <<"d", "a">>, <<"d", "a", "b">>, <<"d", "b">> >>
    /\ resolved.value.cmake_target.link_directories
         = << <<"l", "a">>, <<"l", "a", "b">>, <<"l", "b">> >>

-----------------------------------------------------------------------------
(* Targets with locations *)

\* The ten location fields of struct Target.
LocationFields ==
    { "location", "location_release", "location_debug",
      "location_relwithdebinfo", "location_minsizerel",
      "imported_implib", "imported_implib_release", "imported_implib_debug",
      "imported_implib_relwithdebinfo", "imported_implib_minsizerel" }

\* The path a location field holds when it is present: one path per field.
LocationValue ==
    [ location |-> <<"/", "l">>,
      location_release |-> <<"/", "l", "r">>,
      location_debug |-> <<"/", "l", "d">>,
      location_relwithdebinfo |-> <<"/", "l", "w">>,
      location_minsizerel |-> <<"/", "l", "m">>,
      imported_implib |-> <<"/", "i">>,
      imported_implib_release |-> <<"/", "i", "r">>,
      imported_implib_debug |-> <<"/", "i", "d">>,
      imported_implib_relwithdebinfo |-> <<"/", "i", "w">>,
      imported_implib_minsizerel |-> <<"/", "i", "m">> ]

\* The target with the location fields of `present` set and the others absent.
WithLocations(t, present) ==
    [ f \in DOMAIN t |->
        IF f \in present THEN Some(LocationValue[f])
        ELSE IF f \in LocationFields THEN None
        ELSE t[f] ]

\* A single target with any of its ten location fields present.
InitLocate ==
    /\ windows \in BOOLEAN
    /\ target \in { WithLocations(MakeTarget(<<"r", "o", "o", "t">>, None, None), present) :
                       present \in SUBSET LocationFields }
    /\ resolved = Pending
    /\ ParseIdle /\ OrderIdle /\ BuildTypeIdle /\ LaterIdle

SpecLocate == InitLocate /\ [][NextResolve]_vars

\* The override field of the LOCATION family for a build type.
LocationOverride ==
    [ Debug |-> "location_debug",
      Release |-> "location_release",
      RelWithDebInfo |-> "location_relwithdebinfo",
      MinSizeRel |-> "location_minsizerel" ]

\* The override when it is present, the base otherwise (which may be absent).
OverrideOrBase(t, override, base) == IF IsSome(t[override]) THEN t[override] ELSE t[base]

\* C11: on a platform other than Windows the resolved location is, for every
\* build type c, the target's LOCATION_<c> when that is present, otherwise its
\* LOCATION, otherwise none; the overrides of the other build types play no part.
C11_LocationIsOverrideOrBase ==
    (IsOk(resolved) /\ ~windows) =>
        resolved.value.cmake_target.location
            = OverrideOrBase(target, LocationOverride[resolved.value.build_type], "location")

\* Not on Windows, a target with LOCATION, LOCATION_Debug and LOCATION_Release
\* but no LOCATION_MinSizeRel was resolved for MinSizeRel: the location is LOCATION.
C11_Witness ==
    /\ ~windows
    /\ IsOk(resolved)
    /\ resolved.value.build_type = "MinSizeRel"
    /\ IsSome(target.location_debug) /\ IsSome(target.location_release)
    /\ ~IsSome(target.location_minsizerel)
    /\ resolved.value.cmake_target.location = Some(<<"/", "l">>)

-----------------------------------------------------------------------------
(* Trees whose Targets have locations *)

\* The location fields a Target of a tree may hold, as sets of <<field, path>>:
\* none; a base location; a base location and a Debug override; a Release
\* override without a base; both families; an import library only.
LocationProfiles ==
    { {},
      { <<"location", <<"/", "a">> >> },
      { <<"location", <<"/", "b">> >>, <<"location_debug", <<"/", "b", "d">> >> },
      { <<"location_release", <<"/", "c", "r">> >> },
      { <<"location", <<"/", "a">> >>, <<"imported_implib", <<"/", "i">> >>,
        <<"imported_implib_debug", <<"/", "i", "d">> >> },
      { <<"imported_implib", <<"/", "j">> >> } }

\* The target with the fields of the profile present.
Located(t, profile) ==
    [ f \in DOMAIN t |->
        IF \E p \in profile : p[1] = f
        THEN Some((CHOOSE p \in profile : p[1] = f)[2])
        ELSE t[f] ]

\* String entries of interface_link_libraries: a library name, and a path that
\* is also the location of some Targets.
LinkStringEntries == { PropertyValue_String(<<"x">>), PropertyValue_String(<<"/", "a">>) }

\* LinkTrees(n): the located trees of at most n entries; LinkEntryLists(n): the
\* lists that hold, with the trees of their Target entries, at most n entries.
RECURSIVE LinkTrees(_), LinkEntryLists(_)
LinkTrees(n) ==
    { Located(MakeTarget(<<"d", "e", "p">>, None, IF es = <<>> THEN None ELSE Some(es)),
              profile) :
          profile \in LocationProfiles, es \in LinkEntryLists(n) }

LinkEntryLists(n) ==
    IF n = 0 THEN { <<>> }
    ELSE { <<>> }
         \cup { <<e>> \o rest : e \in LinkStringEntries, rest \in LinkEntryLists(n - 1) }
         \cup UNION { { <<PropertyValue_Target(t)>> \o rest :
                           rest \in LinkEntryLists(n - 1 - EntryCount(t)) } :
                       t \in LinkTrees(n - 1) }

\* The located trees of at most n entries, the root named "root".
LinkRoots(n) == { [ t EXCEPT !.name = <<"r", "o", "o", "t">> ] : t \in LinkTrees(n) }

InitLink ==
    /\ windows \in BOOLEAN
    /\ target \in LinkRoots(MaxEntries)
    /\ resolved = Pending
    /\ ParseIdle /\ OrderIdle /\ BuildTypeIdle /\ LaterIdle

SpecLink == InitLink /\ [][NextResolve]_vars

\* The Targets nested in the tree, at any depth.
NestedTargets(t) == { TargetsInOrder(t)[i] : i \in 2..Len(TargetsInOrder(t)) }

\* The String entries of the interface_link_libraries lists of the tree.
StringsAtAnyDepth(t) ==
    UNION { { e.string : e \in { x \in Range(OrEmpty(n.interface_link_libraries)) :
                                    x.kind = "String" } } :
            n \in Range(TargetsInOrder(t)) }

OptionSet(o) == IF IsSome(o) THEN { Unwrap(o) } ELSE {}

\* The trees that differ from t only in the order of the entries of
\* interface_link_libraries lists, of the root or of nested Targets.
RECURSIVE Rearrangements(_)
Rearrangements(t) ==
    LET entries == OrEmpty(t.interface_link_libraries)
        n == Len(entries)
        choices == [ i \in 1..n |->
                       IF entries[i].kind = "Target"
                       THEN { PropertyValue_Target(s) : s \in Rearrangements(entries[i].target) }
                       ELSE { entries[i] } ]
        picks == { c \in [1..n -> UNION { choices[i] : i \in 1..n }] :
                     \A i \in 1..n : c[i] \in choices[i] }
        orders == { p \in [1..n -> 1..n] : \A i, j \in 1..n : i # j => p[i] # p[j] }
    IN  IF n = 0 THEN { t }
        ELSE { [ t EXCEPT !.interface_link_libraries = Some([ i \in 1..n |-> c[p[i]] ]) ] :
                 c \in picks, p \in orders }

C13_NestedLocationsFollowBuildType ==
    (IsOk(resolved) /\ ~windows) =>
        LET r == resolved.value.cmake_target
            override == LocationOverride[resolved.value.build_type]
        IN  Range(r.link_libraries)
              = OptionSet(r.location)
                \cup StringsAtAnyDepth(target)
                \cup UNION { OptionSet(OverrideOrBase(n, override, "location")) :
                               n \in NestedTargets(target) }

-----------------------------------------------------------------------------
(* Resolutions one after the other *)

\* The largest number of into_cmake_target calls of a behaviour.
MaxCalls == 3

\* The trees that are resolved again and again: a located root with a String
\* entry and a nested Target, the same with the two entries exchanged, and a
\* root that has the five string lists only.
RepeatTargets ==
    LET root(es) == Located(MakeTarget(<<"r", "o", "o", "t">>, None, Some(es)),
                            { <<"location", <<"/", "b">> >>,
                              <<"location_debug", <<"/", "b", "d">> >> })
        dep == PropertyValue_Target(
                   Located(MakeTarget(<<"d", "e", "p">>, Some(<< <<"b">>, <<"a">> >>), None),
                           { <<"location", <<"/", "a">> >> }))
        x == PropertyValue_String(<<"x">>)
    IN  { root(<<x, dep>>), root(<<dep, x>>),
          MakeTarget(<<"r", "o", "o", "t">>, Some(<< <<"a">>, <<"a">> >>), None) }

InitRepeat ==
    /\ windows \in BOOLEAN
    /\ target = <<>> /\ resolved = Pending
    /\ calls = <<>>
    /\ ParseIdle /\ OrderIdle /\ BuildTypeIdle
    /\ which = <<>> /\ output = Pending /\ cmake = Pending
    /\ request = <<>> /\ sys = <<>> /\ package = Pending
    /\ run = FALSE /\ target_file = <<>> /\ found_target = Pending
    /\ linked = <<>> /\ written = <<>>
    /\ searched = <<>> /\ workdir = <<>>

\* One more target.into_cmake_target(build_type), of any of the trees.
Call ==
    /\ Len(calls) < MaxCalls
    /\ \E t \in RepeatTargets, bt \in CMakeBuildType :
           calls' = Append(calls, [ target |-> t,
                                    build_type |-> bt,
                                    cmake_target |-> into_cmake_target(windows, t, bt) ])
    /\ UNCHANGED <<ParseVars, OrderVars, BuildTypeVars, ResolveVars,
                   which, output, cmake, request, sys, package, run, target_file, found_target, linked, written, searched, workdir>>

NextRepeat == Call

SpecRepeat == InitRepeat /\ [][NextRepeat]_vars

-----------------------------------------------------------------------------
(* find_cmake *)

\* cmake::Error, the variants without a payload
Error(kind) == [kind |-> kind]

CMAKE_MIN_VERSION == <<"3", ".", "1", "9">>

Whitespace == { " ", "\n" }

\* str::trim: the text without leading and trailing whitespace
RECURSIVE Trim(_)
Trim(s) ==
    IF s = <<>> THEN s
    ELSE IF Head(s) \in Whitespace THEN Trim(Tail(s))
    ELSE IF s[Len(s)] \in Whitespace THEN Trim(SubSeq(s, 1, Len(s) - 1))
    ELSE s

\* A find_cmake that takes any version that parses.
find_cmake_AnyVersion(cmake_path, cmake_output) ==
    IF ~IsSome(cmake_path) THEN Err(Error("CMakeNotFound"))
    ELSE IF ~IsOk(cmake_output) THEN Err(Error("Internal"))
    ELSE LET version == Version_parse(Trim(cmake_output.value))
         IN  IF ~IsOk(version) THEN Err(Error("UnsupportedCMakeVersion"))
             ELSE Ok([ path |-> Unwrap(cmake_path), version |-> version.value ])

\* find_cmake(), given what which("cmake") and Command::output() give
find_cmake(cmake_path, cmake_output) ==
    IF ~IsSome(cmake_path) THEN Err(Error("CMakeNotFound"))
    ELSE IF ~IsOk(cmake_output) THEN Err(Error("Internal"))
    ELSE LET version == Version_parse(Trim(cmake_output.value))
             minimum == Version_parse(CMAKE_MIN_VERSION)
         IN  IF ~IsOk(version) THEN Err(Error("UnsupportedCMakeVersion"))
             ELSE IF ~IsOk(minimum) THEN Err(Error("UnsupportedCMakeVersion"))
             ELSE IF Version_lt(version.value, minimum.value)
                  THEN Err(Error("UnsupportedCMakeVersion"))
             ELSE Ok([ path |-> Unwrap(cmake_path), version |-> version.value ])

\* Where cmake may be found.
CMakePaths == { <<"/", "b", "i", "n", "/", "c", "m", "a", "k", "e">>,
                <<"/", "o", "p", "t", "/", "c", "m", "a", "k", "e">> }

\* What cmake may write for its version: two or three numbers around the
\* minimum, and texts that are no version.
CMakeVersionTexts ==
    LET majors == { <<"2">>, <<"3">>, <<"4">> }
        minors == { <<"0">>, <<"1", "8">>, <<"1", "9">>, <<"2", "0">> }
        patches == { <<"0">>, <<"5">> }
    IN  { Join(<<a, b>>, ".") : a \in majors, b \in minors }
        \cup { Join(<<a, b, c>>, ".") : a \in majors, b \in minors, c \in patches }
        \cup { <<>>, <<"3">>, <<"+", "3", ".", "2", "0">>,
               <<"3", ".", "1", "9", ".", "0", ".", "1">>,
               <<"3", ".", "2", "0", "-", "r", "c">>, <<"3", ".", "x">> }

\* The standard error of the run: the version text, possibly after a space and
\* before a line end.
CMakeStderr ==
    { pre \o body \o post :
        pre \in { <<>>, <<" ">> }, body \in CMakeVersionTexts, post \in { <<>>, <<"\n">> } }

InitFindCMake ==
    /\ which \in { None } \cup { Some(p) : p \in CMakePaths }
    /\ output \in { Err("io") } \cup { Ok(e) : e \in CMakeStderr }
    /\ cmake = Pending
    /\ ParseIdle /\ OrderIdle /\ BuildTypeIdle /\ ResolveIdle
    /\ calls = <<>>
    /\ request = <<>> /\ sys = <<>> /\ package = Pending
    /\ run = FALSE /\ target_file = <<>> /\ found_target = Pending
    /\ linked = <<>> /\ written = <<>>
    /\ searched = <<>> /\ workdir = <<>>

\* find_cmake()
FindCMake ==
    /\ cmake = Pending
    /\ cmake' = find_cmake(which, output)
    /\ UNCHANGED <<which, output, ParseVars, OrderVars, BuildTypeVars, ResolveVars,
                   calls, request, sys, package, run, target_file, found_target, linked, written, searched, workdir>>

NextFindCMake == FindCMake

SpecFindCMake == InitFindCMake /\ [][NextFindCMake]_vars

\* Version 3.19.0
MinimumVersion == Version_parse(<<"3", ".", "1", "9", ".", "0">>).value

\* C15: whenever find_cmake() returns Ok(cmake), cmake.version >= 3.19.0 holds
\* with the >= of Version.
C15_FoundVersionGeMinimum ==
    IsOk(cmake) => Version_ge(cmake.value.version, MinimumVersion)

\* The version cmake reported, when it ran: its standard error without the
\* surrounding whitespace.
ReportedVersion == IF IsOk(output) THEN Some(Trim(output.value)) ELSE None

\* The reported version is no version, or one below 3.19 in the lexicographic
\* order.
ReportedUnsupported ==
    /\ IsSome(ReportedVersion)
    /\ \/ ~AllDecimalOrPlus(Unwrap(ReportedVersion))
       \/ LexLess(ExpectedVersion(Unwrap(ReportedVersion)), MinimumVersion)

\* The CMakeProgram of the found path and the reported version.
FoundProgram(r) ==
    /\ IsOk(r)
    /\ r.value.path = Unwrap(which)
    /\ IsSome(ReportedVersion)
    /\ r.value.version = ExpectedVersion(Unwrap(ReportedVersion))

\* C16 as stated: find_cmake() returns CMakeNotFound when no cmake is on PATH,
\* UnsupportedCMakeVersion when the reported version does not parse or is lower
\* than 3.19, and in every other case Ok with the found path and the parsed
\* version.
C16_ThreeOutcomes ==
    cmake # Pending =>
        IF ~IsSome(which) THEN cmake = Err(Error("CMakeNotFound"))
        ELSE IF ReportedUnsupported THEN cmake = Err(Error("UnsupportedCMakeVersion"))
        ELSE FoundProgram(cmake)

\* C16, amended: as above, but when cmake is on PATH and running it fails,
\* find_cmake() returns Internal; Ok is returned in the remaining cases only.
C16_FourOutcomes ==
    cmake # Pending =>
        IF ~IsSome(which) THEN cmake = Err(Error("CMakeNotFound"))
        ELSE IF ~IsOk(output) THEN cmake = Err(Error("Internal"))
        ELSE IF ReportedUnsupported THEN cmake = Err(Error("UnsupportedCMakeVersion"))
        ELSE FoundProgram(cmake)

\* cmake at /opt/cmake wrote 3.18.5 and a line end: the version is unsupported.
C16_Witness ==
    /\ which = Some(<<"/", "o", "p", "t", "/", "c", "m", "a", "k", "e">>)
    /\ output = Ok(<<"3", ".", "1", "8", ".", "5", "\n">>)
    /\ cmake = Err(Error("UnsupportedCMakeVersion"))

-----------------------------------------------------------------------------
(* find_package *)

\* VersionError
InvalidVersion == [kind |-> "InvalidVersion"]
VersionTooOld(v) == [kind |-> "VersionTooOld", version |-> v]

\* Error::Version
Error_Version(e) == [kind |-> "Version", error |-> e]

\* struct PackageResult, as deserialized from package.json
PackageResult(name, version, components) ==
    [name |-> name, version |-> version, components |-> components]

\* CMakePackage::new; the working directory is left out
CMakePackage_new(program, name, version, components, verbose) ==
    [ cmake |-> program, name |-> name, version |-> version, components |-> components,
      verbose |-> verbose ]

\* A find_package that reports the requested version in VersionTooOld.
find_package_CarriesRequested(name, version, components, verbose, found_cmake, io) ==
    IF IsErr(found_cmake) THEN found_cmake
    ELSE IF ~io.tempdir THEN Err(Error("Internal"))
    ELSE IF ~io.setup THEN Err(Error("IO"))
    ELSE IF ~io.run THEN Err(Error("IO"))
    ELSE IF io.file = Err("open") THEN Err(Error("IO"))
    ELSE IF io.file = Err("json") THEN Err(Error("Internal"))
    ELSE LET result == io.file.value
             read == IF IsSome(result.version) THEN Version_parse(Unwrap(result.version))
                     ELSE Pending
             package_version == IF IsSome(result.version) THEN Some(read.value) ELSE None
         IN  IF ~IsSome(result.name) THEN Err(Error("PackageNotFound"))
             ELSE IF IsErr(read) THEN Err(Error_Version(InvalidVersion))
             ELSE IF /\ IsSome(version)
                     /\ IsSome(package_version)
                     /\ Version_lt(Unwrap(package_version), Unwrap(version))
                  THEN Err(Error_Version(VersionTooOld(Unwrap(version))))
             ELSE Ok(CMakePackage_new(found_cmake.value, Unwrap(result.name), package_version,
                                      result.components, verbose))

\* A find_package that checks the version before the name.
find_package_VersionFirst(name, version, components, verbose, found_cmake, io) ==
    IF IsErr(found_cmake) THEN found_cmake
    ELSE IF ~io.tempdir THEN Err(Error("Internal"))
    ELSE IF ~io.setup THEN Err(Error("IO"))
    ELSE IF ~io.run THEN Err(Error("IO"))
    ELSE IF io.file = Err("open") THEN Err(Error("IO"))
    ELSE IF io.file = Err("json") THEN Err(Error("Internal"))
    ELSE LET result == io.file.value
             read == IF IsSome(result.version) THEN Version_parse(Unwrap(result.version))
                     ELSE Pending
             package_version == IF IsSome(result.version) THEN Some(read.value) ELSE None
         IN  IF IsErr(read) THEN Err(Error_Version(InvalidVersion))
             ELSE IF /\ IsSome(version)
                     /\ IsSome(package_version)
                     /\ Version_lt(Unwrap(package_version), Unwrap(version))
                  THEN Err(Error_Version(VersionTooOld(Unwrap(package_version))))
             ELSE IF ~IsSome(result.name) THEN Err(Error("PackageNotFound"))
             ELSE Ok(CMakePackage_new(found_cmake.value, Unwrap(result.name), package_version,
                                      result.components, verbose))

\* A find_package that reads the reported version only when a minimum version
\* was requested.
find_package_ParsesOnDemand(name, version, components, verbose, found_cmake, io) ==
    IF IsErr(found_cmake) THEN found_cmake
    ELSE IF ~io.tempdir THEN Err(Error("Internal"))
    ELSE IF ~io.setup THEN Err(Error("IO"))
    ELSE IF ~io.run THEN Err(Error("IO"))
    ELSE IF io.file = Err("open") THEN Err(Error("IO"))
    ELSE IF io.file = Err("json") THEN Err(Error("Internal"))
    ELSE LET result == io.file.value
             asked == IsSome(version) /\ IsSome(result.version)
             read == IF asked THEN Version_parse(Unwrap(result.version)) ELSE Pending
             package_version == IF asked THEN Some(read.value) ELSE None
         IN  IF ~IsSome(result.name) THEN Err(Error("PackageNotFound"))
             ELSE IF IsErr(read) THEN Err(Error_Version(InvalidVersion))
             ELSE IF asked /\ Version_lt(Unwrap(package_version), Unwrap(version))
                  THEN Err(Error_Version(VersionTooOld(Unwrap(package_version))))
             ELSE Ok(CMakePackage_new(found_cmake.value, Unwrap(result.name), package_version,
                                      result.components, verbose))

\* cmake::find_package, given the result of find_cmake() and what its steps
\* meet: whether the temporary directory, the project set-up and the run of
\* cmake succeed, and what reading package.json gives.
find_package(name, version, components, verbose, found_cmake, io) ==
    IF IsErr(found_cmake) THEN found_cmake
    ELSE IF ~io.tempdir THEN Err(Error("Internal"))
    ELSE IF ~io.setup THEN Err(Error("IO"))
    ELSE IF ~io.run THEN Err(Error("IO"))
    ELSE IF io.file = Err("open") THEN Err(Error("IO"))
    ELSE IF io.file = Err("json") THEN Err(Error("Internal"))
    ELSE LET result == io.file.value
             read == IF IsSome(result.version) THEN Version_parse(Unwrap(result.version))
                     ELSE Pending
             package_version == IF IsSome(result.version) THEN Some(read.value) ELSE None
         IN  IF ~IsSome(result.name) THEN Err(Error("PackageNotFound"))
             ELSE IF IsErr(read) THEN Err(Error_Version(InvalidVersion))
             ELSE IF /\ IsSome(version)
                     /\ IsSome(package_version)
                     /\ Version_lt(Unwrap(package_version), Unwrap(version))
                  THEN Err(Error_Version(VersionTooOld(Unwrap(package_version))))
             ELSE Ok(CMakePackage_new(found_cmake.value, Unwrap(result.name), package_version,
                                      result.components, verbose))

\* The builders: a name, possibly a minimum version and components, verbose or not.
Requests ==
    [ name : { <<"f", "o", "o">> },
      version : { None, Some(Version(1, 0, 0)), Some(Version(1, 2, 0)), Some(Version(2, 0, 0)),
                  Some(Version(2, 0, 1)) },
      components : { None, Some(<< <<"c", "o", "r", "e">> >>) },
      verbose : BOOLEAN ]

\* The version strings of package.json.
PackageVersionTexts ==
    { <<"1">>, <<"1", ".", "2">>, <<"1", ".", "1", ".", "5">>, <<"2", ".", "0">>,
      <<"1", ".", "x">>, <<"1", ".", "2", ".", "3", ".", "4">>, <<>> }

\* What reading package.json gives: the file cannot be opened, it is not a
\* package result, or it is one.
PackageFiles ==
    { Err("open"), Err("json") }
    \cup { Ok(PackageResult(n, v, c)) :
             n \in { None, Some(<<"f", "o", "o">>) },
             v \in { None } \cup { Some(t) : t \in PackageVersionTexts },
             c \in { None, Some(<< <<"c", "o", "r", "e">> >>) } }

InitFindPackage ==
    /\ which \in { None, Some(<<"/", "b", "i", "n", "/", "c", "m", "a", "k", "e">>) }
    /\ output \in { Ok(<<"3", ".", "2", "0", "\n">>), Ok(<<"3", ".", "1", "8", "\n">>) }
    /\ cmake = Pending
    /\ request \in Requests
    /\ sys \in [ tempdir : BOOLEAN, setup : BOOLEAN, run : BOOLEAN, file : PackageFiles ]
    /\ package = Pending
    /\ ParseIdle /\ OrderIdle /\ BuildTypeIdle /\ ResolveIdle
    /\ calls = <<>>
    /\ run = FALSE /\ target_file = <<>> /\ found_target = Pending
    /\ linked = <<>> /\ written = <<>>
    /\ searched = <<>> /\ workdir = <<>>

\* FindPackageBuilder::find: cmake::find_package with the four settings of the
\* builder; when it gets as far as the cmake command, the command is given
\* the name as PACKAGE, the version and the components if there are any, and
\* the verbose flag for its output.
Find ==
    /\ package = Pending
    /\ "name" \in DOMAIN request
    /\ package' = find_package(request.name, request.version, request.components,
                               request.verbose, find_cmake(which, output), sys)
    /\ searched' = IF IsOk(find_cmake(which, output)) /\ sys.tempdir /\ sys.setup
                   THEN Some([ package |-> request.name,
                               version |-> request.version,
                               components |-> request.components,
                               verbose |-> request.verbose ])
                   ELSE None
    /\ UNCHANGED <<which, output, cmake, request, sys, ParseVars, OrderVars, BuildTypeVars,
                   ResolveVars,
                   calls, run, target_file, found_target, linked, written, workdir>>

NextFindPackage == Find

SpecFindPackage == InitFindPackage /\ [][NextFindPackage]_vars

\* find() got as far as a package result read from package.json.
ResultRead ==
    /\ package # Pending
    /\ IsSome(which) /\ ~ReportedUnsupported
    /\ sys.tempdir /\ sys.setup /\ sys.run
    /\ IsOk(sys.file)

\* The result of find() is the error VersionTooOld.
IsTooOld(r) == IsErr(r) /\ r.error.kind = "Version" /\ r.error.error.kind = "VersionTooOld"

\* The package reports a version that is one.
ReportsVersion(result) == IsSome(result.version) /\ AllDecimalOrPlus(Unwrap(result.version))

\* C17: for a found package that reports the version v, find() returns
\* VersionTooOld(v) when a minimum was requested and v is below it in the
\* lexicographic order, and the package with version v otherwise; for a found
\* package that reports no version, it returns the package with version None,
\* whatever was requested; and VersionTooOld is returned in no other case.
C17_TooOldExactlyWhenBelowMinimum ==
    /\ (ResultRead /\ IsSome(sys.file.value.name)) =>
          LET result == sys.file.value
          IN  /\ ReportsVersion(result) =>
                    LET v == ExpectedVersion(Unwrap(result.version))
                    IN  IF IsSome(request.version) /\ LexLess(v, Unwrap(request.version))
                        THEN package = Err(Error_Version(VersionTooOld(v)))
                        ELSE IsOk(package) /\ package.value.version = Some(v)
              /\ ~IsSome(result.version) =>
                    IsOk(package) /\ package.value.version = None
    /\ IsTooOld(package) =>
          /\ ResultRead /\ IsSome(sys.file.value.name)
          /\ ReportsVersion(sys.file.value)
          /\ IsSome(request.version)

\* The package reports 1.1.5 and 1.2.0 was requested: the error carries 1.1.5.
C17_Witness ==
    /\ request.version = Some(Version(1, 2, 0))
    /\ IsOk(sys.file)
    /\ sys.file.value.version = Some(<<"1", ".", "1", ".", "5">>)
    /\ package = Err(Error_Version(VersionTooOld(Version(1, 1, 5))))

-----------------------------------------------------------------------------
(* JSON values and the deserialization of a Target *)

JString(string) == [json |-> "string", string |-> string]
JNumber(number) == [json |-> "number", number |-> number]
JNull == [json |-> "null"]
JArray(items) == [json |-> "array", items |-> items]
\* An object: its members as a set of <<key, value>>, keys different.
JObject(members) == [json |-> "object", members |-> members]
\* A text that is no JSON.
JInvalid == [json |-> "invalid"]

\* The member of the object with the key, if there is one.
Member(object, key) ==
    IF \E m \in object.members : m[1] = key
    THEN Some((CHOOSE m \in object.members : m[1] = key)[2])
    ELSE None

\* The JSON key of each field of struct Target: the upper-case name, or the
\* name given by serde(rename).
TargetKey ==
    [ name |-> "NAME",
      location |-> "LOCATION",
      location_release |-> "LOCATION_Release",
      location_debug |-> "LOCATION_Debug",
      location_relwithdebinfo |-> "LOCATION_RelWithDebInfo",
      location_minsizerel |-> "LOCATION_MinSizeRel",
      imported_implib |-> "IMPORTED_IMPLIB",
      imported_implib_release |-> "IMPORTED_IMPLIB_Release",
      imported_implib_debug |-> "IMPORTED_IMPLIB_Debug",
      imported_implib_relwithdebinfo |-> "IMPORTED_IMPLIB_RelWithDebInfo",
      imported_implib_minsizerel |-> "IMPORTED_IMPLIB_MinSizeRel",
      interface_compile_definitions |-> "INTERFACE_COMPILE_DEFINITIONS",
      interface_compile_options |-> "INTERFACE_COMPILE_OPTIONS",
      interface_include_directories |-> "INTERFACE_INCLUDE_DIRECTORIES",
      interface_link_directories |-> "INTERFACE_LINK_DIRECTORIES",
      interface_link_libraries |-> "INTERFACE_LINK_LIBRARIES",
      interface_link_options |-> "INTERFACE_LINK_OPTIONS" ]

\* String
Deserialize_String(j) == IF j.json = "string" THEN Ok(j.string) ELSE Err("invalid type")

\* Option<String>
Deserialize_OptionString(j) ==
    IF j.json = "null" THEN Ok(None)
    ELSE IF j.json = "string" THEN Ok(Some(j.string))
    ELSE Err("invalid type")

\* Option<Vec<String>>
Deserialize_OptionVecString(j) ==
    IF j.json = "null" THEN Ok(None)
    ELSE IF j.json # "array" THEN Err("invalid type")
    ELSE IF \E i \in 1..Len(j.items) : j.items[i].json # "string" THEN Err("invalid type")
    ELSE Ok(Some([ i \in 1..Len(j.items) |-> j.items[i].string ]))

\* struct Target with serde(default): a field without member takes its Default
\* (the empty string for name, None for the others); members with other keys
\* are ignored.  PropertyValue is untagged: String is tried first, then Target.
RECURSIVE Deserialize_Target(_), Deserialize_PropertyValue(_), Deserialize_OptionVecPropertyValue(_)
Deserialize_Target(j) ==
    IF j.json # "object" THEN Err("invalid type")
    ELSE LET de(f) ==
                 LET m == Member(j, TargetKey[f])
                 IN  IF ~IsSome(m) THEN Ok(<<>>)
                     ELSE IF f = "name" THEN Deserialize_String(Unwrap(m))
                     ELSE IF f \in LocationFields THEN Deserialize_OptionString(Unwrap(m))
                     ELSE IF f = "interface_link_libraries"
                          THEN Deserialize_OptionVecPropertyValue(Unwrap(m))
                     ELSE Deserialize_OptionVecString(Unwrap(m))
         IN  IF \E f \in DOMAIN TargetKey : IsErr(de(f)) THEN Err("invalid type")
             ELSE Ok([ f \in DOMAIN TargetKey |-> de(f).value ])

Deserialize_PropertyValue(j) ==
    IF j.json = "string" THEN Ok(PropertyValue_String(j.string))
    ELSE LET t == Deserialize_Target(j)
         IN  IF IsOk(t) THEN Ok(PropertyValue_Target(t.value))
             ELSE Err("data did not match any variant")

Deserialize_OptionVecPropertyValue(j) ==
    IF j.json = "null" THEN Ok(None)
    ELSE IF j.json # "array" THEN Err("invalid type")
    ELSE IF \E i \in 1..Len(j.items) : IsErr(Deserialize_PropertyValue(j.items[i]))
         THEN Err("invalid type")
    ELSE Ok(Some([ i \in 1..Len(j.items) |-> Deserialize_PropertyValue(j.items[i]).value ]))

\* serde_json::from_reader::<Target>
Target_from_reader(content) ==
    IF content.json = "invalid" THEN Err("syntax") ELSE Deserialize_Target(content)

-----------------------------------------------------------------------------
(* find_target *)

\* cmake::find_target, given the platform, the environment of build_type(),
\* whether cmake could be run and what opening the output file gives.
find_target(find_in, target_name, is_windows, e, run_ok, opened) ==
    IF ~run_ok THEN None
    ELSE IF ~IsSome(opened) THEN None
    ELSE LET t == Target_from_reader(Unwrap(opened))
         IN  IF IsErr(t) THEN None
             ELSE Some(into_cmake_target(is_windows, t.value, build_type(e)))

\* The members a target description may have for a key; <<>> stands for no
\* member.
NameMembers == { <<>>, <<JString(<<"f", "o", "o">>)>>, <<JNumber(5)>>, <<JNull>> }
LocationMembers == { <<>>, <<JString(<<"/", "l">>)>>, <<JNumber(5)>>, <<JNull>> }
LinkOptionsMembers ==
    { <<>>, <<JArray(<< JString(<<"-", "x">>) >>)>>, <<JString(<<"-", "x">>)>>,
      <<JArray(<< JNumber(5) >>)>> }
LinkLibrariesMembers ==
    { <<>>,
      <<JArray(<< JString(<<"m">>) >>)>>,
      <<JArray(<< JObject({ <<"NAME", JString(<<"d", "e", "p">>)>>,
                           <<"LOCATION", JString(<<"/", "d">>)>> }) >>)>>,
      <<JArray(<< JObject({ <<"LOCATION", JString(<<"/", "d">>)>> }) >>)>>,
      <<JArray(<< JObject({ <<"NAME", JNumber(5)>> }) >>)>>,
      <<JArray(<< JNumber(5) >>)>> }
OtherMembers == { <<>>, <<JString(<<"l", "i", "b">>)>> }

\* The object with a member for each key whose choice is not <<>>.
Document(choices) ==
    JObject({ <<k, choices[k][1]>> : k \in { c \in DOMAIN choices : choices[c] # <<>> } })

\* The contents of the output file: target descriptions, a value that is no
\* object, a text that is no JSON.
TargetFiles ==
    { Document(c) :
        c \in [ NAME : NameMembers, LOCATION : LocationMembers,
                INTERFACE_LINK_OPTIONS : LinkOptionsMembers,
                INTERFACE_LINK_LIBRARIES : LinkLibrariesMembers,
                TYPE : OtherMembers ] }
    \cup { JString(<<"f", "o", "o">>), JNull, JInvalid }

\* The package whose target is asked for.
FoundPackage ==
    CMakePackage_new([ path |-> <<"/", "b", "i", "n", "/", "c", "m", "a", "k", "e">>,
                       version |-> Version(3, 20, 0) ],
                     <<"f", "o", "o">>, None, None, FALSE)

InitFindTarget ==
    /\ windows \in BOOLEAN
    /\ env \in [ PROFILE : { None, Some(<<"r", "e", "l", "e", "a", "s", "e">>) },
                  OPT_LEVEL : { None }, DEBUG : { None } ]
    /\ run \in BOOLEAN
    /\ target_file \in { None } \cup { Some(content) : content \in TargetFiles }
    /\ found_target = Pending
    /\ selected = Pending
    /\ target = <<>> /\ resolved = Pending
    /\ ParseIdle /\ OrderIdle
    /\ calls = <<>>
    /\ which = <<>> /\ output = Pending /\ cmake = Pending
    /\ request = <<>> /\ sys = <<>> /\ package = Pending
    /\ linked = <<>> /\ written = <<>>
    /\ searched = <<>> /\ workdir = <<>>

\* package.target(name)
FindTarget ==
    /\ found_target = Pending
    /\ found_target' = Ok(find_target(FoundPackage, <<"f", "o", "o">>, windows, env, run,
                                      target_file))
    /\ UNCHANGED <<run, target_file, ParseVars, OrderVars, BuildTypeVars, ResolveVars,
                   calls, which, output, cmake, request, sys, package, linked, written, searched, workdir>>

NextFindTarget == FindTarget

SpecFindTarget == InitFindTarget /\ [][NextFindTarget]_vars

\* The description has no name.
LacksName(content) == content.json # "object" \/ ~IsSome(Member(content, "NAME"))

\* C19: a target description that lacks the name, or has a field of the wrong
\* type, is reported as not found: target() returns None for it.
C19_NamelessOrMistypedIsNotFound ==
    (found_target # Pending /\ IsSome(target_file)) =>
        ((LacksName(Unwrap(target_file)) \/ IsErr(Target_from_reader(Unwrap(target_file))))
            => found_target = Ok(None))

-----------------------------------------------------------------------------
(* CMakeTarget::link *)

\* A line "<directive>=<value>" written for cargo.
Line(directive, value) == [directive |-> directive, value |-> value]

\* s has the text t at position p.
HasAt(s, p, t) == p >= 1 /\ p + Len(t) - 1 <= Len(s) /\ SubSeq(s, p, p + Len(t) - 1) = t

\* link_name.  On Linux the first group of the leftmost match of
\* lib([^/]+)\.so.* : the match starts at the first "lib" that is followed by
\* one or more characters other than '/' and then ".so"; the group is greedy,
\* so it ends before the last such ".so".  On Windows the library itself.
link_name(is_windows, lib) ==
    IF is_windows THEN Some(lib)
    ELSE LET ends(p) == { q \in (p + 4)..Len(lib) :
                            /\ HasAt(lib, q, <<".", "s", "o">>)
                            /\ \A i \in (p + 3)..(q - 1) : lib[i] # "/" }
             starts == { p \in 1..Len(lib) : HasAt(lib, p, <<"l", "i", "b">>) /\ ends(p) # {} }
         IN  IF starts = {} THEN None
             ELSE LET p == CHOOSE x \in starts : \A y \in starts : x <= y
                      q == CHOOSE x \in ends(p) : \A y \in ends(p) : y <= x
                  IN  Some(SubSeq(lib, p + 3, q - 1))

\* One line of the directive for each value, in list order.
Lines(directive, values) == [ i \in 1..Len(values) |-> Line(directive, values[i]) ]

\* The line of a library: link-lib with its link name, link-arg without one.
library_line(is_windows, lib) ==
    IF IsSome(link_name(is_windows, lib))
    THEN Line("cargo:rustc-link-lib=dylib", Unwrap(link_name(is_windows, lib)))
    ELSE Line("cargo:rustc-link-arg", lib)

\* A link_write that writes the libraries before the options.
link_write_LibrariesFirst(is_windows, self) ==
    Lines("cargo:rustc-link-search=native", self.link_directories)
    \o [ i \in 1..Len(self.link_libraries) |-> library_line(is_windows, self.link_libraries[i]) ]
    \o Lines("cargo:rustc-link-arg", self.link_options)

\* CMakeTarget::link_write: the lines it writes, in the order of writing
link_write(is_windows, self) ==
    Lines("cargo:rustc-link-search=native", self.link_directories)
    \o Lines("cargo:rustc-link-arg", self.link_options)
    \o [ i \in 1..Len(self.link_libraries) |-> library_line(is_windows, self.link_libraries[i]) ]

\* Lists of no, one or two of the values.
UpToTwo(values) ==
    { <<>> } \cup { <<a>> : a \in values } \cup { <<a, b>> : a \in values, b \in values }

LinkDirectoryLists ==
    { <<>>, << <<"/", "u", "s", "r", "/", "l", "i", "b", "6", "4">> >>,
      << <<"/", "o", "p", "t">>, <<"/", "a">> >> }

LinkOptionLists == { <<>>, << <<"-", "x">> >>, << <<"-", "z">>, <<"-", "x">> >> }

\* Libraries: shared objects with and without version, a bare name, a static
\* library, a shared object that is not named lib*, a directory named lib*,
\* and a name that holds "lib" and ".so" twice.
LinkLibraries ==
    { <<"/", "u", "s", "r", "/", "l", "i", "b", "/", "l", "i", "b", "b", "a", "r", ".", "s", "o">>,
      <<"/", "l", "i", "b", "6", "4", "/", "l", "i", "b", "f", "o", "o", ".", "s", "o", ".", "5">>,
      <<"m">>,
      <<"/", "a", "/", "l", "i", "b", "z", ".", "a">>,
      <<"/", "l", "i", "b", "s", "/", "x", ".", "s", "o">>,
      <<"/", "l", "i", "b", "q", ".", "s", "o", "f", "t", "/", "y", ".", "a">>,
      <<"l", "i", "b", "l", "i", "b", ".", "s", "o", ".", "s", "o">> }

\* struct CMakeTarget
CMakeTarget(name, link_directories, link_options, link_libraries) ==
    [ name |-> name, location |-> None, compile_definitions |-> <<>>,
      compile_options |-> <<>>, include_directories |-> <<>>,
      link_directories |-> link_directories, link_options |-> link_options,
      link_libraries |-> link_libraries ]

InitLinkWrite ==
    /\ windows \in BOOLEAN
    /\ linked \in { CMakeTarget(<<"f", "o", "o">>, dirs, opts, libs) :
                       dirs \in LinkDirectoryLists, opts \in LinkOptionLists,
                       libs \in UpToTwo(LinkLibraries) }
    /\ written = <<>>
    /\ target = <<>> /\ resolved = Pending
    /\ ParseIdle /\ OrderIdle /\ BuildTypeIdle
    /\ calls = <<>>
    /\ which = <<>> /\ output = Pending /\ cmake = Pending
    /\ request = <<>> /\ sys = <<>> /\ package = Pending
    /\ run = FALSE /\ target_file = <<>> /\ found_target = Pending
    /\ searched = <<>> /\ workdir = <<>>

\* The next writeln! of link_write
WriteLine ==
    /\ Len(written) < Len(link_write(windows, linked))
    /\ written' = Append(written, link_write(windows, linked)[Len(written) + 1])
    /\ UNCHANGED <<linked, ParseVars, OrderVars, BuildTypeVars, ResolveVars,
                   calls, which, output, cmake, request, sys, package, run, target_file, found_target,
                   searched, workdir>>

NextLinkWrite == WriteLine

SpecLinkWrite == InitLinkWrite /\ [][NextLinkWrite]_vars

\* written is the beginning of lines.
WrittenSoFar(lines) ==
    Len(written) <= Len(lines) /\ written = SubSeq(lines, 1, Len(written))

\* The name n of the library on Linux: the library is some text, "lib", n,
\* ".so" and some text, n not empty and without '/', no such occurrence of
\* "lib" further left and no longer n at this one.
IsLinuxName(lib, p, n) ==
    /\ Len(n) > 0
    /\ \A i \in 1..Len(n) : n[i] # "/"
    /\ HasAt(lib, p, <<"l", "i", "b">> \o n \o <<".", "s", "o">>)

NameCandidates(lib) ==
    { <<p, SubSeq(lib, p + 3, e)>> : p \in 1..Len(lib), e \in 1..Len(lib) }

LinuxNames(lib) ==
    { c \in NameCandidates(lib) :
        /\ IsLinuxName(lib, c[1], c[2])
        /\ \A d \in NameCandidates(lib) :
               IsLinuxName(lib, d[1], d[2]) =>
                   (c[1] < d[1] \/ (c[1] = d[1] /\ Len(d[2]) <= Len(c[2]))) }

\* The line of a library: on Windows link-lib with the library; on Linux
\* link-lib with its name when it has one, link-arg with the library otherwise.
LibraryLine(lib) ==
    IF windows THEN Line("cargo:rustc-link-lib=dylib", lib)
    ELSE IF LinuxNames(lib) = {} THEN Line("cargo:rustc-link-arg", lib)
    ELSE Line("cargo:rustc-link-lib=dylib", (CHOOSE c \in LinuxNames(lib) : TRUE)[2])

-----------------------------------------------------------------------------
(* The order of the collection (src/src/cmake.rs, collect_from_targets): trees
   of up to four Targets whose values tell the Targets apart *)

\* The trees of one to four Targets named a, b, c, d in the order root first,
\* then each nested Target with its own nested Targets before the next one.
\* A Target holds its name as the only value of each property, or lacks the
\* properties; its link libraries are its nested Targets, each behind a String
\* entry or not; a Target without nested Targets has no link libraries, or
\* the String entry alone.
InitCollect ==
    /\ windows \in BOOLEAN
    /\ \E absent \in SUBSET {"a", "b", "c", "d"}, strings \in BOOLEAN, n \in 1..4 :
           LET Entries(nested) ==
                   LET F[i \in 0..Len(nested)] ==
                           IF i = 0 THEN <<>>
                           ELSE F[i - 1]
                                \o (IF strings THEN <<PropertyValue_String(<<"x">>)>> ELSE <<>>)
                                \o <<PropertyValue_Target(nested[i])>>
                   IN  F[Len(nested)]
               Node(label, nested) ==
                   MakeTarget(<<label>>,
                              IF label \in absent THEN None ELSE Some(<< <<label>> >>),
                              IF nested # <<>> THEN Some(Entries(nested))
                              ELSE IF strings THEN Some(<<PropertyValue_String(<<"x">>)>>)
                              ELSE None)
               RECURSIVE Forests(_)
               Forests(labels) ==
                   IF labels = <<>> THEN { <<>> }
                   ELSE UNION { { <<Node(labels[1], below)>> \o beside :
                                      below \in Forests(SubSeq(labels, 2, k)),
                                      beside \in Forests(SubSeq(labels, k + 1, Len(labels))) } :
                                  k \in 1..Len(labels) }
           IN  \E forest \in Forests(SubSeq(<<"a", "b", "c", "d">>, 1, n)) :
                   /\ Len(forest) = 1
                   /\ target = forest[1]
    /\ resolved = Pending
    /\ ParseIdle /\ OrderIdle /\ BuildTypeIdle /\ LaterIdle

SpecCollect == InitCollect /\ [][Resolve]_vars

\* C21: the collected sequence is in depth-first pre-order: the root's own
\* values first, then for each nested Target in declared order its whole
\* collected sequence, its own values before those of its nested Targets.
\* The Targets are named in that order, so the compile_options and the
\* link_options are the values of the tree in increasing order, each once;
\* String entries and absent properties add nothing.
C21_CollectsDepthFirstPreOrder ==
    IsOk(resolved) =>
        LET r == resolved.value.cmake_target
        IN  /\ StrictlyIncreasing(r.compile_options)
            /\ Range(r.compile_options) = RawValues(target, "interface_compile_options")
            /\ StrictlyIncreasing(r.link_options)
            /\ Range(r.link_options) = RawValues(target, "interface_link_options")

\* The root a holds b and d, b holds c: a walk level by level would give
\* a, b, d, c; the resolved options are a, b, c, d.
C21_Witness ==
    /\ IsOk(resolved)
    /\ Len(OrEmpty(target.interface_link_libraries)) = 2
    /\ target.interface_link_libraries[1][1].kind = "Target"
    /\ target.interface_link_libraries[1][2].kind = "Target"
    /\ target.interface_link_libraries[1][1].target.interface_link_libraries # None
    /\ resolved.value.cmake_target.link_options
         = << <<"k", "a">>, <<"k", "b">>, <<"k", "c">>, <<"k", "d">> >>
    /\ resolved.value.cmake_target.compile_options
         = << <<"o", "a">>, <<"o", "b">>, <<"o", "c">>, <<"o", "d">> >>

-----------------------------------------------------------------------------
(* The field family of a resolution (src/src/cmake.rs, location_for_build_type
   and From<PropertyValue> for Vec<String>), on the located trees *)

\* C22: one resolution consults one field family: on Windows the resolved
\* location and every location a nested Target contributes to link_libraries
\* is the value of an IMPORTED_IMPLIB field of a Target of the tree, on the
\* other platforms the value of a LOCATION field; what is left in
\* link_libraries are the String entries.
C22_OneFieldFamilyPerResolution ==
    IsOk(resolved) =>
        LET r == resolved.value.cmake_target
            family == IF windows
                      THEN { "imported_implib", "imported_implib_release",
                             "imported_implib_debug", "imported_implib_relwithdebinfo",
                             "imported_implib_minsizerel" }
                      ELSE { "location", "location_release", "location_debug",
                             "location_relwithdebinfo", "location_minsizerel" }
            consulted == UNION { OptionSet(n[f]) :
                                   n \in {target} \cup NestedTargets(target), f \in family }
        IN  /\ OptionSet(r.location) \subseteq consulted
            /\ Range(r.link_libraries) \subseteq consulted \cup StringsAtAnyDepth(target)

-----------------------------------------------------------------------------
(* Resolution has an outcome for every tree (src/src/cmake.rs,
   into_cmake_target), on the located trees *)

\* C23: for every tree and every build type the resolution comes to its end
\* and gives a CMakeTarget: a name, an optional location and six lists of
\* strings.  Before the call the resolution of the tree has such a value for
\* each build type, after it the outcome is such a value; there is no error
\* outcome.
C23_ResolutionTerminatesWithTarget ==
    LET String == Seq(Range(Alphabet))
        IsCMakeTarget(r) ==
            /\ DOMAIN r = { "compile_definitions", "compile_options",
                            "include_directories", "link_directories",
                            "link_options", "link_libraries", "location", "name" }
            /\ r.name \in String
            /\ r.location = None \/ (IsSome(r.location) /\ Unwrap(r.location) \in String)
            /\ \A f \in DOMAIN r \ { "location", "name" } : r[f] \in Seq(String)
    IN  /\ resolved = Pending \/ IsOk(resolved)
        /\ resolved = Pending =>
              \A bt \in CMakeBuildType : IsCMakeTarget(into_cmake_target(windows, target, bt))
        /\ IsOk(resolved) =>
              /\ resolved.value.build_type \in CMakeBuildType
              /\ IsCMakeTarget(resolved.value.cmake_target)

\* A root without any location that holds a nested Target which holds a nested
\* Target was resolved: no location, and link libraries all the same.
C23_Witness ==
    /\ IsOk(resolved)
    /\ resolved.value.cmake_target.location = None
    /\ Len(TargetsInOrder(target)) = 3
    /\ Len(OrEmpty(target.interface_link_libraries)) = 1
    /\ Len(resolved.value.cmake_target.link_libraries) = 2

-----------------------------------------------------------------------------
(* The version a found package reports (src/src/cmake.rs, find_package) *)

\* C25: for a found package that reports a version string which is not a
\* version, find() returns the error InvalidVersion, whether a minimum version
\* was requested or not; that error is returned in no other case, and a found
\* package that reports no version is never an error.
C25_UnreadableVersionIsInvalidVersion ==
    LET invalid == Err(Error_Version(InvalidVersion))
    IN  /\ (ResultRead /\ IsSome(sys.file.value.name)) =>
              LET result == sys.file.value
              IN  /\ (IsSome(result.version) /\ ~ReportsVersion(result)) => package = invalid
                  /\ ~IsSome(result.version) => IsOk(package)
        /\ package = invalid =>
              /\ ResultRead /\ IsSome(sys.file.value.name)
              /\ IsSome(sys.file.value.version) /\ ~ReportsVersion(sys.file.value)

\* The package foo reported the version 1.x and no minimum version was
\* requested: find() returned InvalidVersion.
C25_Witness ==
    /\ request.version = None
    /\ ResultRead
    /\ sys.file.value.name = Some(<<"f", "o", "o">>)
    /\ sys.file.value.version = Some(<<"1", ".", "x">>)
    /\ package = Err(Error_Version(InvalidVersion))

-----------------------------------------------------------------------------
(* The builder (src/src/lib.rs, FindPackageBuilder): calls on the builder that
   find_package("foo") returns, then find() *)

\* find_package(name) has returned the builder with its defaults; calls holds
\* the builder calls made on it; cmake is there, and the package is found with
\* the version 1.2 or is not found.
InitBuilder ==
    /\ request = [ name |-> <<"f", "o", "o">>, version |-> None, components |-> None,
                   verbose |-> FALSE ]
    /\ calls = <<>>
    /\ which = Some(<<"/", "b", "i", "n", "/", "c", "m", "a", "k", "e">>)
    /\ output = Ok(<<"3", ".", "2", "0", "\n">>)
    /\ cmake = Pending
    /\ sys \in [ tempdir : BOOLEAN, setup : { TRUE }, run : { TRUE },
                 file : { Ok(PackageResult(Some(<<"f", "o", "o">>), Some(<<"1", ".", "2">>), None)),
                          Ok(PackageResult(None, None, None)) } ]
    /\ package = Pending
    /\ searched = None
    /\ windows = FALSE /\ target = <<>> /\ resolved = Pending
    /\ ParseIdle /\ OrderIdle /\ BuildTypeIdle
    /\ run = FALSE /\ target_file = <<>> /\ found_target = Pending
    /\ linked = <<>> /\ written = <<>> /\ workdir = <<>>

\* A components() that starts from a new builder of the same name.
FindPackageBuilder_components_Fresh ==
    /\ package = Pending /\ "name" \in DOMAIN request /\ Len(calls) < MaxCalls
    /\ \E list \in { << <<"c", "o", "r", "e">> >>, << <<"g", "u", "i">>, <<"c", "o", "r", "e">> >> } :
           /\ request' = [ name |-> request.name, version |-> None, components |-> Some(list),
                           verbose |-> FALSE ]
           /\ calls' = Append(calls, [ method |-> "components", components |-> list ])
    /\ UNCHANGED <<which, output, cmake, sys, package, searched, windows, target, resolved,
                   ParseVars, OrderVars, BuildTypeVars,
                   run, target_file, found_target, linked, written, workdir>>

\* FindPackageBuilder::version: the text is converted to a Version; the call
\* panics when it is not one.
FindPackageBuilder_version ==
    /\ package = Pending /\ "name" \in DOMAIN request /\ Len(calls) < MaxCalls
    /\ \E v \in { <<"1", ".", "0">>, <<"2", ".", "0", ".", "1">>, <<"1", ".", "x">> } :
           /\ request' = IF IsOk(Version_parse(v))
                         THEN [ request EXCEPT !.version = Some(Version_parse(v).value) ]
                         ELSE [ panicked |-> "Invalid version specified!" ]
           /\ calls' = Append(calls, [ method |-> "version", version |-> v ])
    /\ UNCHANGED <<which, output, cmake, sys, package, searched, windows, target, resolved,
                   ParseVars, OrderVars, BuildTypeVars,
                   run, target_file, found_target, linked, written, workdir>>

\* FindPackageBuilder::components
FindPackageBuilder_components ==
    /\ package = Pending /\ "name" \in DOMAIN request /\ Len(calls) < MaxCalls
    /\ \E list \in { << <<"c", "o", "r", "e">> >>, << <<"g", "u", "i">>, <<"c", "o", "r", "e">> >> } :
           /\ request' = [ request EXCEPT !.components = Some(list) ]
           /\ calls' = Append(calls, [ method |-> "components", components |-> list ])
    /\ UNCHANGED <<which, output, cmake, sys, package, searched, windows, target, resolved,
                   ParseVars, OrderVars, BuildTypeVars,
                   run, target_file, found_target, linked, written, workdir>>

\* FindPackageBuilder::verbose
FindPackageBuilder_verbose ==
    /\ package = Pending /\ "name" \in DOMAIN request /\ Len(calls) < MaxCalls
    /\ request' = [ request EXCEPT !.verbose = TRUE ]
    /\ calls' = Append(calls, [ method |-> "verbose" ])
    /\ UNCHANGED <<which, output, cmake, sys, package, searched, windows, target, resolved,
                   ParseVars, OrderVars, BuildTypeVars,
                   run, target_file, found_target, linked, written, workdir>>

SpecBuilder ==
    InitBuilder
    /\ [][FindPackageBuilder_version \/ FindPackageBuilder_components
             \/ FindPackageBuilder_verbose \/ Find]_vars

\* C26: after any calls of version(), components() and verbose() on the builder
\* of find_package("foo"), in any order and any of them repeated, the builder
\* holds the name foo, the version of the last version() call, the list of the
\* last components() call and verbose exactly when verbose() was called, and
\* what no call has set is at its default: no version, no components, not
\* verbose.  find() has cmake look for exactly these four values, and the
\* package it returns is verbose as the builder was.
C26_BuilderHoldsLastSettings ==
    LET Made(method) == { i \in 1..Len(calls) : calls[i].method = method }
        Last(method) == calls[CHOOSE i \in Made(method) : \A j \in Made(method) : j <= i]
        expected ==
            [ name |-> <<"f", "o", "o">>,
              version |-> IF Made("version") = {} THEN None
                          ELSE Some(ExpectedVersion(Last("version").version)),
              components |-> IF Made("components") = {} THEN None
                             ELSE Some(Last("components").components),
              verbose |-> Made("verbose") # {} ]
    IN  /\ "name" \in DOMAIN request => request = expected
        /\ (package # Pending /\ sys.tempdir) =>
              searched = Some([ package |-> expected.name,
                                version |-> expected.version,
                                components |-> expected.components,
                                verbose |-> expected.verbose ])
        /\ IsOk(package) => package.value.verbose = expected.verbose

\* version("1.0"), verbose() and version("2.0.1") were called in this order and
\* then find(): cmake looked for foo 2.0.1 without components, verbosely, and
\* the package found has the version 1.2: VersionTooOld.
C26_Witness ==
    /\ Len(calls) = 3
    /\ calls[1] = [ method |-> "version", version |-> <<"1", ".", "0">> ]
    /\ calls[2].method = "verbose"
    /\ calls[3].method = "version" /\ calls[3].version = <<"2", ".", "0", ".", "1">>
    /\ searched = Some([ package |-> <<"f", "o", "o">>, version |-> Some(Version(2, 0, 1)),
                         components |-> None, verbose |-> TRUE ])
    /\ package = Err(Error_Version(VersionTooOld(Version(1, 2, 0))))

-----------------------------------------------------------------------------
(* Queries one after the other on one package (src/src/cmake.rs, find_target):
   the output files stay in the working directory of the package *)

\* The path of the output file of a query, within the working directory:
\* "target_", the target name in lower case with every ':' replaced by '_',
\* and ".json".
target_output_file(target_name) ==
    LET upper == << "A", "B", "C", "D", "E", "F", "G", "H", "I", "J", "K", "L", "M",
                    "N", "O", "P", "Q", "R", "S", "T", "U", "V", "W", "X", "Y", "Z" >>
        lower == << "a", "b", "c", "d", "e", "f", "g", "h", "i", "j", "k", "l", "m",
                    "n", "o", "p", "q", "r", "s", "t", "u", "v", "w", "x", "y", "z" >>
        to_lowercase(c) == IF \E i \in 1..Len(upper) : upper[i] = c
                           THEN lower[CHOOSE i \in 1..Len(upper) : upper[i] = c]
                           ELSE c
        replace(c) == IF c = ":" THEN "_" ELSE c
    IN  <<"t", "a", "r", "g", "e", "t", "_">>
        \o [ i \in 1..Len(target_name) |-> replace(to_lowercase(target_name[i])) ]
        \o <<".", "j", "s", "o", "n">>

\* The package was found a moment ago: its working directory holds no output
\* file of a query yet.
InitQueries ==
    /\ windows \in BOOLEAN
    /\ env = [ PROFILE |-> None, OPT_LEVEL |-> None, DEBUG |-> None ]
    /\ workdir = <<>>
    /\ calls = <<>>
    /\ run = FALSE /\ target_file = None /\ found_target = Pending
    /\ selected = Pending
    /\ target = <<>> /\ resolved = Pending
    /\ ParseIdle /\ OrderIdle
    /\ which = <<>> /\ output = Pending /\ cmake = Pending
    /\ request = <<>> /\ sys = <<>> /\ package = Pending
    /\ linked = <<>> /\ written = <<>> /\ searched = <<>>

\* package.target(name), once more: cmake cannot be run, or it runs and writes
\* the description of the target to the output file, or it runs and writes
\* nothing; then the output file is opened and read.  calls holds for each
\* query the name, whether its run wrote the file, and the result.
Query ==
    /\ Len(calls) < MaxCalls
    /\ \E name \in { <<"Q", ":", ":", "c">>, <<"q", ":", ":", "c">>, <<"q", "_", "_", "c">>,
                     <<"z">> },
          run_ok \in BOOLEAN, writes \in BOOLEAN :
           LET file == target_output_file(name)
               wrote == run_ok /\ writes
               after == IF wrote
                        THEN [ f \in DOMAIN workdir \cup { file } |->
                                 IF f = file THEN JObject({ <<"NAME", JString(name)>> })
                                 ELSE workdir[f] ]
                        ELSE workdir
               opened == IF file \in DOMAIN after THEN Some(after[file]) ELSE None
               result == find_target(FoundPackage, name, windows, env, run_ok, opened)
           IN  /\ workdir' = after
               /\ run' = run_ok
               /\ target_file' = opened
               /\ found_target' = Ok(result)
               /\ calls' = Append(calls, [ target |-> name, wrote |-> wrote, result |-> result ])
    /\ UNCHANGED <<windows, target, resolved, ParseVars, OrderVars, BuildTypeVars,
                   which, output, cmake, request, sys, package, linked, written, searched>>

SpecQueries == InitQueries /\ [][Query]_vars

\* C27: in every sequence of queries on one package, a query whose cmake run
\* wrote no output file returns None, whatever earlier queries have left in
\* the working directory.
C27_NoFileWrittenIsNotFound ==
    \A i \in 1..Len(calls) : ~calls[i].wrote => calls[i].result = None

-----------------------------------------------------------------------------
(* Name and location of the result (src/src/cmake.rs, into_cmake_target), on
   the located trees *)

\* C28: the resolved CMakeTarget bears the name of the root, never that of a
\* nested Target; its location is the location of the root resolved for the
\* build type (the override of the platform's family when present, otherwise
\* the base, otherwise none); and a location that is present is one of the
\* link_libraries.
C28_NameAndLocationAreTheRoots ==
    IsOk(resolved) =>
        LET r == resolved.value.cmake_target
            bt == resolved.value.build_type
            implib == [ Debug |-> "imported_implib_debug",
                        Release |-> "imported_implib_release",
                        RelWithDebInfo |-> "imported_implib_relwithdebinfo",
                        MinSizeRel |-> "imported_implib_minsizerel" ]
        IN  /\ r.name = target.name
            /\ \A n \in NestedTargets(target) : r.name # n.name
            /\ r.location = IF windows
                            THEN OverrideOrBase(target, implib[bt], "imported_implib")
                            ELSE OverrideOrBase(target, LocationOverride[bt], "location")
            /\ IsSome(r.location) => Unwrap(r.location) \in Range(r.link_libraries)

\* On Windows a root with the import library /i and the Debug import library
\* /id, holding a nested Target dep, was resolved for Debug: the result is
\* named root, its location is /id, and /id is among the link libraries.
C28_Witness ==
    /\ windows
    /\ IsOk(resolved)
    /\ resolved.value.build_type = "Debug"
    /\ NestedTargets(target) # {}
    /\ resolved.value.cmake_target.name = <<"r", "o", "o", "t">>
    /\ resolved.value.cmake_target.location = Some(<<"/", "i", "d">>)
    /\ <<"/", "i", "d">> \in Range(resolved.value.cmake_target.link_libraries)

====
